---------------------------- MODULE Spec2Model ----------------------------
(***************************************************************************)
(* A model of the miralis-ace security monitor: the memory layout          *)
(* singleton, the buddy page allocator, the PMP window over confidential   *)
(* memory, the declassification of confidential-hart state to the          *)
(* hypervisor hart, the removal of confidential VMs and the trap dispatch  *)
(* loop with its exit counter.                                             *)
(*                                                                         *)
(* Addresses are natural numbers (bytes).  The page sizes are scaled: the  *)
(* smallest page has SmallestPageBytes bytes and every page size is        *)
(* Fanout times the next smaller one.                                      *)
(***************************************************************************)
EXTENDS Integers, Sequences, FiniteSets, TLC

\* ------------------------------------------------------------------ bounds
\* Bytes of the smallest page (PageSize::smallest().in_bytes(), scaled).
SmallestPageBytes == 2
\* Number of smaller pages in a page of the next size (scaled).
Fanout == 2
\* How many tokens one release_pages call gives back at most.
MaxReleaseLen == 2
\* How many times MemoryLayout::init is called at most.
MaxInitCalls == 2
\* Register values are drawn from 0 .. MaxVal.
MaxVal == 1
\* Largest configured max_firmware_exits.
MaxExitLimit == 3
\* How many traps the guest takes at most.
MaxTraps == 5
\* Number of confidential VMs and of harts per confidential VM.
MaxVms == 1
MaxHarts == 2

\* Index of the largest page size; page sizes are 0 .. LargestLevel.
LargestLevel == 3

VARIABLES
    \* MemoryLayout
    layout,          \* MEMORY_LAYOUT: NoLayout or the four bounds
    init_ret,        \* what the last MemoryLayout::init returned
    init_calls,      \* number of MemoryLayout::init calls made
    offset_ret,      \* what the last *_address_at_offset call returned
    \* PageAllocator
    allocator,       \* PAGE_ALLOCATOR: NoAllocator or the tree of nodes
    held,            \* page tokens owned by callers of acquire_page
    acquire_ret,     \* what the last acquire_page returned
    panicked,        \* an assert!/unwrap of the monitor failed
    event,           \* the operation that produced this state
    \* PMP
    hw_pmp,          \* the hart's CSRs pmpcfg0, pmpaddr4, pmpaddr5
    mctx_pmp,        \* mctx.pmp: the PmpGroup the monitor commits to the hart
    flow,            \* boot step, then the flow the hart executes in
    caches,          \* the fences issued since the last write of a PMP CSR
    \* trap dispatch
    ctx,             \* VirtContext: nb_exits, mode
    dispatched,      \* traps handed to handle_firmware_trap / handle_payload_trap
    max_exit,        \* config::MAX_FIRMWARE_EXIT
    aborted,         \* Plat::exit_failure was called for the exit limit
    trap_calls,      \* the calls the last handle_trap made, in their order
    \* confidential flow
    confidential_hart,   \* CSRs, GPRs and resumable operation of the confidential hart
    hypervisor_hart,     \* GPRs, CSRs and NACL shared memory of the hypervisor hart
    exit_to,             \* where the handler exited to
    twin,                \* a second run of the handler from another confidential hart
    flow_calls,          \* the calls the last handler made on its flow handle, in order
    \* control data
    cvms,                \* ControlDataStorage: the confidential VMs and their harts
    pending_shutdown,    \* harts whose shutdown handler still has to try the removal
    destroy_ret,         \* the SbiResponse DestroyConfidentialVm answered with
    last_shutdown,       \* per VM: the hart that was marked Shutdown most recently
    \* harts calling the allocator
    lock,                \* the RwLock of PAGE_ALLOCATOR: the harts holding its write guard
    harts,               \* per hart: its call in progress and the page tokens it owns
    history,             \* the calls that left the allocator, in that order
    \* HostArch
    host_ctx,            \* HOST_CTX.csr: the CSRs of the user space mock
    csr_ret,             \* what the last read_csr or write_csr returned
    \* the confidential VM of the calling hart
    shared_pages,        \* memory protector: the guest addresses mapped to shared pages
    remote_commands,     \* the remote commands broadcast to the harts of the VM
    shared_page_ret,     \* what the last SharedPage::new returned
    \* interrupt controller
    msip,                \* CLINT: the msip register of every hart
    ipi_ret              \* what the last send_ipi returned

layoutVars == <<layout, init_ret, init_calls, offset_ret>>
allocVars == <<allocator, held, acquire_ret>>
pmpVars == <<hw_pmp, mctx_pmp, flow, caches>>
trapVars == <<ctx, dispatched, max_exit, aborted, trap_calls>>
declVars == <<confidential_hart, hypervisor_hart, exit_to, twin, flow_calls>>
cvmVars == <<cvms, pending_shutdown, destroy_ret, last_shutdown>>
lockVars == <<lock, harts, history>>
archVars == <<host_ctx, csr_ret>>
mmuVars == <<shared_pages, remote_commands, shared_page_ret>>
clintVars == <<msip, ipi_ret>>

\* ------------------------------------------------------------- PageSize
PageSizes == 0 .. LargestLevel
\* Option<PageSize>::None orders below every Some(size).
NoSize == -1

RECURSIVE Pow(_, _)
Pow(b, e) == IF e = 0 THEN 1 ELSE b * Pow(b, e - 1)

in_bytes(size) == SmallestPageBytes * Pow(Fanout, size)
number_of_smaller_pages(size) == IF size = 0 THEN 0 ELSE Fanout
is_aligned_to(address, align) == address % align = 0

\* ------------------------------------------------------ pointers_utility
PtrError == [ok |-> FALSE, value |-> 0]
PtrOk(p) == [ok |-> TRUE, value |-> p]

\* The addresses a word holds are 0 .. AddressSpaceBytes - 1 (usize, scaled).
AddressSpaceBytes == in_bytes(LargestLevel)

\* The addition must not overflow the word, and the incremented pointer must stay
\* strictly below the end of the owned region.
ptr_byte_add_mut(pointer, offset_in_bytes, owned_region_end) ==
    IF pointer + offset_in_bytes >= AddressSpaceBytes THEN PtrError
    ELSE IF pointer + offset_in_bytes < owned_region_end
    THEN PtrOk(pointer + offset_in_bytes)
    ELSE PtrError

ptr_align(pointer, align_in_bytes, owned_region_end) ==
    LET offset_to_align == (align_in_bytes - (pointer % align_in_bytes)) % align_in_bytes
    IN  ptr_byte_add_mut(pointer, offset_to_align, owned_region_end)

ptr_byte_offset(pointer1, pointer2) == pointer1 - pointer2

\* ----------------------------------------------------------- MemoryLayout
NoLayout ==
    [set |-> FALSE,
     non_confidential_memory_start |-> 0, non_confidential_memory_end |-> 0,
     confidential_memory_start |-> 0, confidential_memory_end |-> 0]

MkLayout(ncs, nce, cs, ce) ==
    [set |-> TRUE,
     non_confidential_memory_start |-> ncs, non_confidential_memory_end |-> nce,
     confidential_memory_start |-> cs, confidential_memory_end |-> ce]

InitOk(start, end) == [result |-> "Ok", start |-> start, end |-> end]
InitErr(e) == [result |-> e, start |-> 0, end |-> 0]
NoInitRet == InitErr("NotCalled")

\* call_once storing the new value whatever the cell holds.
call_once_overwriting(cell, value) == value

\* Once::call_once: the closure runs only while the cell is empty.
call_once(cell, value) == IF cell.set THEN cell ELSE value

\* The end of init: call_once stores the layout, the bounds are returned.
InitStore(cell, ncs, nce, start, trimmed) ==
    IF ~trimmed.ok
    THEN [cell |-> cell, ret |-> InitErr("PointerError")]
    ELSE [cell |-> call_once(cell, MkLayout(ncs, nce, start, trimmed.value)),
          ret |-> InitOk(start, trimmed.value)]

\* The end is moved down when the size is no multiple of the smallest page size.
InitTrim(cell, ncs, nce, start, ce, memory_size, memory_size_in_bytes) ==
    InitStore(cell, ncs, nce, start,
              IF memory_size > memory_size_in_bytes
              THEN ptr_byte_add_mut(start, memory_size_in_bytes, ce)
              ELSE PtrOk(ce))

InitAligned(cell, ncs, nce, ce, aligned) ==
    IF ~aligned.ok
    THEN [cell |-> cell, ret |-> InitErr("NotEnoughMemory")]
    ELSE InitTrim(cell, ncs, nce, aligned.value, ce,
                  ptr_byte_offset(ce, aligned.value),
                  (ptr_byte_offset(ce, aligned.value) \div SmallestPageBytes)
                      * SmallestPageBytes)

\* MemoryLayout::init on MEMORY_LAYOUT = cell: the new cell and the value returned.
\* The three assert!s on the order of the arguments panic the monitor.
MemoryLayout_init(cell, ncs, nce, cs, ce) ==
    IF ~(ncs < nce /\ nce <= cs /\ cs < ce)
    THEN [cell |-> cell, ret |-> InitErr("Panic")]
    ELSE InitAligned(cell, ncs, nce, ce, ptr_align(cs, SmallestPageBytes, ce))

\* What a call that offsets an address returns: the address, or the error.
AddressOk(address) == [ok |-> TRUE, value |-> address, error |-> "none"]
AddressErr(error) == [ok |-> FALSE, value |-> 0, error |-> error]
NoOffsetRet == AddressErr("NotCalled")

\* Result::map_err on what pointers_utility returned.
map_err(r, error) == IF r.ok THEN AddressOk(r.value) ELSE AddressErr(error)

\* ConfidentialMemoryAddress::add and NonConfidentialMemoryAddress::add
ConfidentialMemoryAddress_add(address, offset_in_bytes, upper_bound) ==
    ptr_byte_add_mut(address, offset_in_bytes, upper_bound)

NonConfidentialMemoryAddress_add(address, offset_in_bytes, upper_bound) ==
    ptr_byte_add_mut(address, offset_in_bytes, upper_bound)

\* confidential_address_at_offset bounding the address by the end of the address
\* space instead of the end of the confidential memory.
confidential_address_at_offset_unbounded(ml, address, offset_in_bytes) ==
    map_err(ConfidentialMemoryAddress_add(address, offset_in_bytes,
                                          AddressSpaceBytes),
            "AddressNotInConfidentialMemory")

confidential_address_at_offset(ml, address, offset_in_bytes) ==
    map_err(ConfidentialMemoryAddress_add(address, offset_in_bytes,
                                          ml.confidential_memory_end),
            "AddressNotInConfidentialMemory")

confidential_address_at_offset_bounded(ml, address, offset_in_bytes, upper_bound) ==
    IF ~(upper_bound <= ml.confidential_memory_end)
    THEN AddressErr("AddressNotInConfidentialMemory")
    ELSE confidential_address_at_offset(ml, address, offset_in_bytes)

non_confidential_address_at_offset(ml, address, offset_in_bytes) ==
    map_err(NonConfidentialMemoryAddress_add(address, offset_in_bytes,
                                             ml.non_confidential_memory_end),
            "AddressNotInNonConfidentialMemory")

\* ----------------------------------------------------------- Page tokens
\* Page<UnAllocated>: ownership of [address, address + in_bytes(size)).
NoToken == [address |-> -1, size |-> NoSize]
Token(address, size) == [address |-> address, size |-> size]
TokenBytes(token) == token.address .. (token.address + in_bytes(token.size) - 1)

\* Page::divide: the smaller pages of a page, in the order of their addresses.
Page_divide(token) ==
    [i \in 1 .. number_of_smaller_pages(token.size) |->
        Token(token.address + (i - 1) * in_bytes(token.size - 1), token.size - 1)]

\* Page::merge: one page of new_size starting where the first page starts.
Page_merge(from_pages, new_size) == Token(from_pages[1].address, new_size)

\* ---------------------------------------------------- PageStorageTreeNode
\* A node is named by the child indices on the path from the root to it.
RECURSIVE PathsOfLen(_)
PathsOfLen(n) ==
    IF n = 0 THEN {<<>>}
    ELSE {Append(p, i) : p \in PathsOfLen(n - 1), i \in 0 .. Fanout - 1}

NodeIds == UNION {PathsOfLen(n) : n \in 0 .. LargestLevel}

\* PageStorageTreeNode::empty
EmptyNode == [page_token |-> NoToken, max_allocable_page_size |-> NoSize, children |-> FALSE]

EmptyTree == [n \in NodeIds |-> EmptyNode]

\* The tree, whether an assert! or unwrap failed on the way, and the value returned.
TreeState(nodes, panic, ret) == [nodes |-> nodes, panic |-> panic, ret |-> ret]
Failed(st) == TreeState(st.nodes, TRUE, st.ret)

initialize_children_if_needed(st, n) ==
    IF st.nodes[n].children THEN st
    ELSE TreeState([st.nodes EXCEPT ![n].children = TRUE], st.panic, st.ret)

store_page_token_in_this_node(st, n, token) ==
    IF st.nodes[n].page_token # NoToken THEN Failed(st)
    ELSE TreeState([st.nodes EXCEPT ![n].max_allocable_page_size = token.size,
                                    ![n].page_token = token],
                   st.panic, st.ret)

\* acquire_page_token_from_this_node returning a copy of the token it leaves in the node.
acquire_page_token_from_this_node_keeping(st, n) ==
    IF st.nodes[n].page_token = NoToken THEN Failed(st)
    ELSE TreeState(st.nodes, st.panic, st.nodes[n].page_token)

\* acquire_page_token_from_this_node leaving what the node advertises as it was.
acquire_page_token_from_this_node_advertising(st, n) ==
    IF st.nodes[n].page_token = NoToken THEN Failed(st)
    ELSE TreeState([st.nodes EXCEPT ![n].page_token = NoToken],
                   st.panic, st.nodes[n].page_token)

\* The token taken is returned in ret.
acquire_page_token_from_this_node(st, n) ==
    IF st.nodes[n].page_token = NoToken THEN Failed(st)
    ELSE TreeState([st.nodes EXCEPT ![n].max_allocable_page_size = NoSize,
                                    ![n].page_token = NoToken],
                   st.panic, st.nodes[n].page_token)

\* index = (token address - node base) / smaller size; index < children.len() is asserted:
\* an index the assert rejects is reported as Fanout.
calculate_child_index(this_node_base_address, this_node_page_size, token) ==
    IF this_node_page_size > token.size /\ token.address >= this_node_base_address
       /\ (token.address - this_node_base_address) \div in_bytes(this_node_page_size - 1) < Fanout
    THEN (token.address - this_node_base_address) \div in_bytes(this_node_page_size - 1)
    ELSE Fanout

child_base_address(this_node_base_address, this_node_page_size, index) ==
    this_node_base_address + index * in_bytes(this_node_page_size - 1)

\* One round of divide_page_token's for_each: the smaller page goes to the child it indexes.
StoreDividedPage(st, n, index, page) ==
    IF index >= Fanout THEN Failed(st)
    ELSE store_page_token_in_this_node(st, Append(n, index), page)

RECURSIVE StoreDivided(_, _, _, _, _, _)
StoreDivided(st, n, base, size, pages, i) ==
    IF i > Len(pages) \/ st.panic THEN st
    ELSE StoreDivided(StoreDividedPage(st, n, calculate_child_index(base, size, pages[i]),
                                       pages[i]),
                      n, base, size, pages, i + 1)

\* The end of divide_page_token: the node now advertises the next smaller size.
DivideLowerMax(st, n) ==
    IF st.panic THEN st
    ELSE IF st.nodes[n].max_allocable_page_size < 1 THEN Failed(st)
    ELSE TreeState([st.nodes EXCEPT ![n].max_allocable_page_size = @ - 1], st.panic, st.ret)

divide_page_token(st, n, this_node_base_address, this_node_page_size) ==
    IF st.nodes[n].page_token = NoToken THEN Failed(st)
    ELSE DivideLowerMax(
             StoreDivided(TreeState([st.nodes EXCEPT ![n].page_token = NoToken],
                                    st.panic, st.ret),
                          n, this_node_base_address, this_node_page_size,
                          Page_divide(st.nodes[n].page_token), 1),
             n)

RECURSIVE TakeChildren(_, _, _)
TakeChildren(st, n, i) ==
    IF i > Fanout THEN st
    ELSE TakeChildren(acquire_page_token_from_this_node(st, Append(n, i - 1)), n, i + 1)

MergeSetMax(st, n, this_node_page_size) ==
    TreeState([st.nodes EXCEPT ![n].max_allocable_page_size = this_node_page_size],
              st.panic, st.ret)

\* try_to_merge_page_tokens leaving the children's tokens where they are.
try_to_merge_page_tokens_never(st, n, this_node_page_size) == st

try_to_merge_page_tokens(st, n, this_node_page_size) ==
    IF \A i \in 0 .. Fanout - 1 : st.nodes[Append(n, i)].page_token # NoToken
    THEN MergeSetMax(
             store_page_token_in_this_node(
                 TakeChildren(st, n, 1), n,
                 Page_merge([i \in 1 .. Fanout |-> st.nodes[Append(n, i - 1)].page_token],
                            this_node_page_size)),
             n, this_node_page_size)
    ELSE st

\* The return of store_page_token: self.max_allocable_page_size.unwrap().
StoreReturn(st, n) ==
    IF st.panic THEN st
    ELSE IF st.nodes[n].max_allocable_page_size = NoSize THEN Failed(st)
    ELSE TreeState(st.nodes, st.panic, st.nodes[n].max_allocable_page_size)

\* A child that can allocate a larger size than this node advertises raises what it advertises.
StoreRaiseMax(st, n, allocable_page_size) ==
    IF allocable_page_size > st.nodes[n].max_allocable_page_size
    THEN TreeState([st.nodes EXCEPT ![n].max_allocable_page_size = allocable_page_size],
                   st.panic, st.ret)
    ELSE st

\* Coming back from the recursion into the child: st.ret is what the child can allocate.
StoreAfterChild(st, n, this_node_page_size) ==
    IF st.panic THEN st
    ELSE StoreRaiseMax(try_to_merge_page_tokens(st, n, this_node_page_size), n, st.ret)

\* ret is the largest page size allocable from node n afterwards.
RECURSIVE store_page_token(_, _, _, _, _)
StoreInChild(st, n, this_node_base_address, this_node_page_size, token, index) ==
    IF index >= Fanout THEN Failed(st)
    ELSE StoreAfterChild(
             store_page_token(st, Append(n, index),
                 child_base_address(this_node_base_address, this_node_page_size, index),
                 this_node_page_size - 1, token),
             n, this_node_page_size)

store_page_token(st, n, this_node_base_address, this_node_page_size, token) ==
    IF st.panic THEN st
    ELSE IF this_node_page_size < token.size THEN Failed(st)
    ELSE IF this_node_page_size = token.size
    THEN StoreReturn(IF this_node_base_address # token.address THEN Failed(st)
                     ELSE store_page_token_in_this_node(st, n, token), n)
    ELSE StoreReturn(
             StoreInChild(initialize_children_if_needed(st, n), n,
                          this_node_base_address, this_node_page_size, token,
                          calculate_child_index(this_node_base_address, this_node_page_size,
                                                token)),
             n)

OutOfPages == [address |-> -2, size |-> NoSize]

MaxOfChildren(nodes, n) ==
    CHOOSE m \in {nodes[Append(n, i)].max_allocable_page_size : i \in 0 .. Fanout - 1} :
        \A k \in 0 .. Fanout - 1 : nodes[Append(n, k)].max_allocable_page_size <= m

\* The last child advertising the size instead of the first.
LastChildWith(nodes, n, page_size_to_acquire) ==
    IF \E i \in 0 .. Fanout - 1 :
           nodes[Append(n, i)].max_allocable_page_size >= page_size_to_acquire
    THEN CHOOSE i \in 0 .. Fanout - 1 :
           /\ nodes[Append(n, i)].max_allocable_page_size >= page_size_to_acquire
           /\ \A j \in i + 1 .. Fanout - 1 :
                  ~(nodes[Append(n, j)].max_allocable_page_size >= page_size_to_acquire)
    ELSE Fanout

\* children.iter().position(..): the first child advertising the size, Fanout if none.
FirstChildWith(nodes, n, page_size_to_acquire) ==
    IF \E i \in 0 .. Fanout - 1 :
           nodes[Append(n, i)].max_allocable_page_size >= page_size_to_acquire
    THEN CHOOSE i \in 0 .. Fanout - 1 :
           /\ nodes[Append(n, i)].max_allocable_page_size >= page_size_to_acquire
           /\ \A j \in 0 .. i - 1 :
                  ~(nodes[Append(n, j)].max_allocable_page_size >= page_size_to_acquire)
    ELSE Fanout

\* The end of recursion: the token of this node, which must be the node's own page.
AcquireHere(st, this_node_base_address, this_node_page_size) ==
    IF st.panic THEN st
    ELSE IF st.ret.address # this_node_base_address \/ st.ret.size # this_node_page_size
    THEN Failed(st)
    ELSE st

\* Coming back from the child without refreshing what this node advertises.
AcquireAfterChild_without_refresh(st, n) ==
    IF st.panic THEN st
    ELSE IF st.ret = OutOfPages THEN Failed(st)
    ELSE st

\* Coming back from the child: unwrap its token, refresh what this node advertises.
AcquireAfterChild(st, n) ==
    IF st.panic THEN st
    ELSE IF st.ret = OutOfPages THEN Failed(st)
    ELSE TreeState([st.nodes EXCEPT ![n].max_allocable_page_size = MaxOfChildren(st.nodes, n)],
                   st.panic, st.ret)

\* ret is the token acquired, or OutOfPages.
RECURSIVE acquire_page_token(_, _, _, _, _)
AcquireInChild(st, n, this_node_base_address, this_node_page_size, page_size_to_acquire, index) ==
    IF st.panic THEN st
    ELSE IF index >= Fanout THEN TreeState(st.nodes, st.panic, OutOfPages)
    ELSE AcquireAfterChild(
             acquire_page_token(st, Append(n, index),
                 child_base_address(this_node_base_address, this_node_page_size, index),
                 this_node_page_size - 1, page_size_to_acquire),
             n)

AcquireBelow(st, n, this_node_base_address, this_node_page_size, page_size_to_acquire) ==
    AcquireInChild(st, n, this_node_base_address, this_node_page_size, page_size_to_acquire,
                   FirstChildWith(st.nodes, n, page_size_to_acquire))

AcquireDivided(st, n, this_node_base_address, this_node_page_size, page_size_to_acquire) ==
    AcquireBelow(IF st.nodes[n].page_token # NoToken
                 THEN divide_page_token(st, n, this_node_base_address, this_node_page_size)
                 ELSE st,
                 n, this_node_base_address, this_node_page_size, page_size_to_acquire)

acquire_page_token(st, n, this_node_base_address, this_node_page_size, page_size_to_acquire) ==
    IF st.panic THEN st
    ELSE IF ~(st.nodes[n].max_allocable_page_size >= page_size_to_acquire)
    THEN TreeState(st.nodes, st.panic, OutOfPages)
    ELSE IF this_node_page_size = page_size_to_acquire
    THEN AcquireHere(acquire_page_token_from_this_node(st, n),
                     this_node_base_address, this_node_page_size)
    ELSE IF this_node_page_size = 0 THEN Failed(st)
    ELSE AcquireDivided(initialize_children_if_needed(st, n), n, this_node_base_address,
                        this_node_page_size, page_size_to_acquire)

\* -------------------------------------------------------- PageAllocator
NoAllocator == [set |-> FALSE, base_address |-> 0, page_size |-> LargestLevel,
                nodes |-> EmptyTree]

\* PageAllocator::empty, once stored in PAGE_ALLOCATOR.
PageAllocator(nodes) == [set |-> TRUE, base_address |-> 0, page_size |-> LargestLevel,
                         nodes |-> nodes]

is_address_page_aligned(address, page_size) == is_aligned_to(address, in_bytes(page_size))

can_create_page(ml, address, page_size, memory_region_end) ==
    confidential_address_at_offset_bounded(
        ml, address, in_bytes(page_size) - 1, memory_region_end).ok

\* The largest page size the address is aligned to, starting from page_size.
RECURSIVE LargestAligned(_, _)
LargestAligned(page_size, address) ==
    IF page_size < LargestLevel /\ is_address_page_aligned(address, page_size + 1)
    THEN LargestAligned(page_size + 1, address)
    ELSE page_size

\* Goes down one size as long as the next smaller size does not fit either.
RECURSIVE SmallerWhileNotFitting(_, _, _, _)
SmallerWhileNotFitting(ml, page_size, address, memory_region_end) ==
    IF page_size > 0 /\ ~can_create_page(ml, address, page_size - 1, memory_region_end)
    THEN SmallerWhileNotFitting(ml, page_size - 1, address, memory_region_end)
    ELSE page_size

\* The token of one round of the loop, created when the next address is inside the
\* region or the page ends exactly at the end of the region.
AddRegionStore(st, ml, address, page_size, memory_region_end, memory_address) ==
    IF memory_address.ok \/ can_create_page(ml, address, page_size, memory_region_end)
    THEN store_page_token(st, <<>>, 0, LargestLevel, Token(address, page_size))
    ELSE st

\* The while loop of add_memory_region, from memory_address = Some(address).
RECURSIVE AddRegionLoop(_, _, _, _, _)
AddRegionNext(st, ml, page_size, memory_region_end, memory_address) ==
    IF st.panic \/ ~memory_address.ok THEN st
    ELSE AddRegionLoop(st, ml, memory_address.value, page_size, memory_region_end)

AddRegionRound(st, ml, address, page_size, memory_region_end, memory_address) ==
    AddRegionNext(AddRegionStore(st, ml, address, page_size, memory_region_end, memory_address),
                  ml, page_size, memory_region_end, memory_address)

AddRegionSized(st, ml, address, page_size, memory_region_end) ==
    AddRegionRound(st, ml, address, page_size, memory_region_end,
                   confidential_address_at_offset_bounded(
                       ml, address, in_bytes(page_size), memory_region_end))

AddRegionLoop(st, ml, address, page_size, memory_region_end) ==
    AddRegionSized(st, ml, address,
                   SmallerWhileNotFitting(ml, LargestAligned(page_size, address), address,
                                          memory_region_end),
                   memory_region_end)

AddRegionDone(st) == TreeState(st.nodes, st.panic, "Ok")

\* ret is "Ok" or the error; MemoryLayout::read() panics without a layout.
add_memory_region(st, ml, memory_region_start, memory_region_end) ==
    IF ~(is_aligned_to(memory_region_start, SmallestPageBytes)
         /\ is_aligned_to(memory_region_end, SmallestPageBytes)
         /\ memory_region_start < memory_region_end)
    THEN Failed(st)
    ELSE IF memory_region_end - memory_region_start > in_bytes(LargestLevel)
    THEN TreeState(st.nodes, st.panic, "TooMuchMemory")
    ELSE IF ~ml.set THEN Failed(st)
    ELSE AddRegionDone(AddRegionLoop(st, ml, memory_region_start, 0, memory_region_end))

InitializeResult(cell, st) ==
    IF st.panic \/ st.ret # "Ok"
    THEN [cell |-> cell, panic |-> st.panic, ret |-> st.ret]
    ELSE [cell |-> PageAllocator(st.nodes), panic |-> FALSE, ret |-> "Ok"]

\* PageAllocator::initialize on PAGE_ALLOCATOR = cell.
PageAllocator_initialize(cell, ml, memory_start, memory_end) ==
    IF cell.set THEN [cell |-> cell, panic |-> FALSE, ret |-> "Reinitialization"]
    ELSE InitializeResult(cell, add_memory_region(TreeState(EmptyTree, FALSE, "Ok"), ml,
                                                  memory_start, memory_end))

\* PageAllocator::acquire_page under the write lock.
PageAllocator_acquire_page(cell, page_size_to_allocate) ==
    IF ~cell.set THEN Failed(TreeState(cell.nodes, FALSE, NoToken))
    ELSE acquire_page_token(TreeState(cell.nodes, FALSE, NoToken), <<>>,
                            cell.base_address, cell.page_size, page_size_to_allocate)

\* PageAllocator::release_pages under the write lock: the tokens are stored in order.
RECURSIVE StoreAll(_, _, _, _)
StoreAll(st, cell, released_pages, i) ==
    IF i > Len(released_pages) \/ st.panic THEN st
    ELSE StoreAll(store_page_token(st, <<>>, cell.base_address, cell.page_size,
                                   released_pages[i]),
                  cell, released_pages, i + 1)

\* release_pages when the write lock is not obtained: the pages leak.
PageAllocator_release_pages_leaking(cell, released_pages) ==
    TreeState(cell.nodes, FALSE, NoSize)

PageAllocator_release_pages(cell, released_pages) ==
    IF ~cell.set THEN Failed(TreeState(cell.nodes, FALSE, NoSize))
    ELSE StoreAll(TreeState(cell.nodes, FALSE, NoSize), cell, released_pages, 1)

\* The tokens callers hold, each with the number of times it was handed out.
NoneHeld == <<>>
HeldTokens(h) == DOMAIN h
Hold(h, t) ==
    IF t \in DOMAIN h THEN [h EXCEPT ![t] = @ + 1]
    ELSE [x \in DOMAIN h \cup {t} |-> IF x = t THEN 1 ELSE h[x]]
Unhold(h, t) ==
    IF h[t] > 1 THEN [h EXCEPT ![t] = @ - 1]
    ELSE [x \in DOMAIN h \ {t} |-> h[x]]

RECURSIVE UnholdAll(_, _)
UnholdAll(h, seq) == IF seq = <<>> THEN h ELSE UnholdAll(Unhold(h, Head(seq)), Tail(seq))

\* Sequences of 1 .. n tokens the callers hold, no token given back more often than held.
HeldSeqs(h, n) ==
    UNION {{seq \in [1 .. k -> DOMAIN h] :
               \A t \in DOMAIN h : Cardinality({i \in 1 .. k : seq[i] = t}) <= h[t]} :
           k \in 1 .. n}

\* ------------------------------------------------------------------ PMP
\* A 64-bit CSR is the set of the positions of its 1 bits.
PMP_PERMISSION_RWX_MASK == {0, 1, 2}
PMP_TOR_MASK == {3}
ShiftLeft(bits, n) == {b + n : b \in bits} \cap (0 .. 63)
read_and_set_bits(csr, mask) == csr \cup mask
read_and_clear_bits(csr, mask) == csr \ mask

Pmp(pmpcfg0, pmpaddr4, pmpaddr5) ==
    [pmpcfg0 |-> pmpcfg0, pmpaddr4 |-> pmpaddr4, pmpaddr5 |-> pmpaddr5]

\* MiralisContext::new: entries 4 and 5 of the PmpGroup are off, the last entry of
\* pmpcfg0 opens the rest of memory.
PmpGroupNew == Pmp(ShiftLeft(PMP_TOR_MASK \cup PMP_PERMISSION_RWX_MASK, 56), 0, 0)

\* open_access_to_confidential_memory writing the byte of entry 6 instead of entry 5.
open_access_setting_entry_6(pmpcfg0) ==
    read_and_set_bits(pmpcfg0,
        ShiftLeft(PMP_PERMISSION_RWX_MASK, 32)
            \cup ShiftLeft(PMP_TOR_MASK \cup PMP_PERMISSION_RWX_MASK, 48))

\* CSR.pmpcfg0 with the window open.
open_access_to_confidential_memory(pmpcfg0) ==
    read_and_set_bits(pmpcfg0,
        ShiftLeft(PMP_PERMISSION_RWX_MASK, 32)
            \cup ShiftLeft(PMP_TOR_MASK \cup PMP_PERMISSION_RWX_MASK, 40))

\* close_access_to_confidential_memory switching entry 5 off and keeping the permissions.
close_access_clearing_tor(pmpcfg0) ==
    read_and_clear_bits(pmpcfg0, ShiftLeft(PMP_TOR_MASK, 40))

\* close_access_to_confidential_memory clearing the permissions of entry 4 only.
close_access_forgetting_entry_5(pmpcfg0) ==
    read_and_clear_bits(pmpcfg0, ShiftLeft(PMP_PERMISSION_RWX_MASK, 32))

\* CSR.pmpcfg0 with the window closed.
close_access_to_confidential_memory(pmpcfg0) ==
    read_and_clear_bits(pmpcfg0,
        ShiftLeft(PMP_PERMISSION_RWX_MASK, 32) \cup ShiftLeft(PMP_PERMISSION_RWX_MASK, 40))

MINIMUM_NUMBER_OF_PMP_REQUIRED == 4
number_of_pmps == 16

\* The PmpGroup and the CSRs after split_memory_into_confidential_and_non_confidential.
split_memory_into_confidential_and_non_confidential(mctx, hw, confidential_memory_start, confidential_memory_end) ==
    IF ~(number_of_pmps >= MINIMUM_NUMBER_OF_PMP_REQUIRED)
    THEN [mctx |-> mctx, hw |-> hw, ret |-> "NotEnoughPmps"]
    ELSE [mctx |-> Pmp(mctx.pmpcfg0, confidential_memory_start, confidential_memory_end),
          hw |-> Pmp(close_access_to_confidential_memory(hw.pmpcfg0),
                     hw.pmpaddr4, hw.pmpaddr5),
          ret |-> "Ok"]

\* The fences issued since a PMP CSR was last written: none right after the write.
PmpWritten == [sfence_vma |-> FALSE, hfence_gvma |-> FALSE]

sfence_vma(c) == [c EXCEPT !.sfence_vma = TRUE]
hfence_gvma(c) == [c EXCEPT !.hfence_gvma = TRUE]

\* clear_caches that flushes the translations of the first stage only.
clear_caches_without_hfence_gvma(c) == sfence_vma(c)

clear_caches(c) == hfence_gvma(sfence_vma(c))

\* PmpFlush::flush, which every Arch::write_pmp of the monitor is followed by.
PmpFlush_flush(c) == hfence_gvma(sfence_vma(c))

\* Arch::write_pmp: the CSRs take the addresses and the configuration of the PmpGroup.
write_pmp(pmp) == Pmp(pmp.pmpcfg0, pmp.pmpaddr4, pmp.pmpaddr5)

\* overwrite_virtctx_with_hardware_hart taking the addresses and not the configuration.
overwrite_virtctx_keeping_pmpcfg(mctx, hw) == Pmp(mctx.pmpcfg0, hw.pmpaddr4, hw.pmpaddr5)

\* The PmpGroup after overwrite_virtctx_with_hardware_hart read the CSRs into it.
overwrite_virtctx_with_hardware_hart(mctx, hw) == Pmp(hw.pmpcfg0, hw.pmpaddr4, hw.pmpaddr5)

\* The VirtContext after overwrite_virtctx_with_hardware_hart: "Save normal registers".
overwrite_virtctx_regs(c, hh) == [c EXCEPT !.regs = hh.gprs]

\* ------------------------------------------------------- trap dispatch
\* config::MAX_FIRMWARE_EXIT = None
NoMaxExit == -1

to_exec_mode(mode) == IF mode = "M" THEN "Firmware" ELSE "Payload"

\* What handle_trap did: the VirtContext it leaves, where it ended, the calls it made
\* in their order, and whether the PMP group was committed among them.
TrapResult(c, outcome, calls) ==
    [ctx |-> c, outcome |-> outcome, calls |-> calls,
     write_pmp |-> \E i \in DOMAIN calls : calls[i] = "write_pmp"]

\* The handler handle_trap dispatches to and the interrupt injection after it.
dispatch(exec_mode) ==
    <<IF exec_mode = "Firmware" THEN "handle_firmware_trap" ELSE "handle_payload_trap",
      "check_and_inject_interrupts">>

\* The check for an execution mode change that commits the PMP group whenever the
\* handler left another execution mode, whichever hooks ran.
world_switch_without_hooks(exec_mode, new_exec_mode) ==
    IF exec_mode # new_exec_mode THEN <<"write_pmp">> ELSE <<>>

\* The check for an execution mode change at the end of handle_trap: the context
\* switch, the policy hook and the commit of the PMP group.
world_switch(exec_mode, new_exec_mode) ==
    IF exec_mode = "Firmware" /\ new_exec_mode = "Payload"
    THEN <<"ctx.switch_from_firmware_to_payload", "policy.switch_from_firmware_to_payload",
           "write_pmp">>
    ELSE IF exec_mode = "Payload" /\ new_exec_mode = "Firmware"
    THEN <<"ctx.switch_from_payload_to_firmware", "policy.switch_from_payload_to_firmware",
           "write_pmp">>
    ELSE <<>>

\* handle_trap counting the exit before it checks the limit.
handle_trap_counting_first(c, limit, is_from_mmode, next_mode) ==
    IF limit # NoMaxExit /\ c.nb_exits + 1 >= limit
    THEN TrapResult([c EXCEPT !.nb_exits = @ + 1], "exit_failure", <<>>)
    ELSE IF is_from_mmode THEN TrapResult(c, "handle_miralis_trap", <<>>)
    ELSE TrapResult([c EXCEPT !.nb_exits = @ + 1, !.mode = next_mode],
                    to_exec_mode(c.mode),
                    dispatch(to_exec_mode(c.mode))
                        \o world_switch(to_exec_mode(c.mode), to_exec_mode(next_mode)))

\* handle_trap dispatching a trap from M-mode like any other trap.
handle_trap_dispatching_mmode(c, limit, is_from_mmode, next_mode) ==
    IF limit # NoMaxExit /\ c.nb_exits + 1 >= limit
    THEN TrapResult(c, "exit_failure", <<>>)
    ELSE TrapResult([c EXCEPT !.nb_exits = @ + 1, !.mode = next_mode],
                    to_exec_mode(c.mode),
                    dispatch(to_exec_mode(c.mode))
                        \o world_switch(to_exec_mode(c.mode), to_exec_mode(next_mode)))

\* handle_trap on VirtContext c: the trap comes from M-mode or not, and the handler
\* leaves the virtual hart in next_mode.  The PMP is committed on a world switch.
handle_trap(c, limit, is_from_mmode, next_mode) ==
    IF limit # NoMaxExit /\ c.nb_exits + 1 >= limit
    THEN TrapResult(c, "exit_failure", <<>>)
    ELSE IF is_from_mmode THEN TrapResult(c, "handle_miralis_trap", <<>>)
    ELSE TrapResult([c EXCEPT !.nb_exits = @ + 1, !.mode = next_mode],
                    to_exec_mode(c.mode),
                    dispatch(to_exec_mode(c.mode))
                        \o world_switch(to_exec_mode(c.mode), to_exec_mode(next_mode)))

\* ------------------------------------------------------ confidential flow
\* riscv::sbi::SBI_SUCCESS and riscv::specification::ECALL_INSTRUCTION_LENGTH,
\* CAUSE_LOAD_ACCESS
SBI_SUCCESS == 0
ECALL_INSTRUCTION_LENGTH == 4
CAUSE_LOAD_ACCESS == 5

\* Error::sbi_error_code, as a two's complement value: InvalidParam is -3,
\* NotSupported (an InvalidCall) is -2, Failed is -1.
sbi_error_code(error) ==
    IF error = "InvalidParameter" THEN -3
    ELSE IF error = "InvalidCall" THEN -2
    ELSE -1

\* HypervisorHart: the GPRs, the CSRs and the NACL shared memory the hypervisor reads
\* after the exit, all holding the value fill.
FilledHypervisorHart(fill) ==
    [gprs |-> [r \in {"a0", "a1", "a2", "a6", "a7"} |-> fill],
     csrs |-> [r \in {"scause", "stval", "mepc", "sepc"} |-> fill],
     shared_memory |-> [r \in {"htval", "htinst", "vsstatus", "base_address"} |-> fill]]

\* ConfidentialHart: the trap CSRs, the state the hypervisor must not learn, and the
\* operation to resume when the hypervisor answers.
ConfidentialHart(trap, mepc, a0) ==
    [csrs |-> [mcause |-> trap.mcause, mtval |-> trap.mtval, mtval2 |-> trap.mtval2,
               mtinst |-> trap.mtinst, mepc |-> mepc,
               scause |-> 0, stval |-> 0, sepc |-> 0],
     gprs |-> [a0 |-> a0, a1 |-> 0, a6 |-> 0, a7 |-> 0],
     resumable_operation |-> <<>>]

SbiResponse(a0, a1) == [a0 |-> a0, a1 |-> a1]

SbiResponse_success_with_code(code) == SbiResponse(SBI_SUCCESS, code)

SbiResponse_success == SbiResponse_success_with_code(0)

SbiResponse_error(error) == SbiResponse(sbi_error_code(error), 0)

\* SbiResponse::declassify_to_hypervisor_hart that also hands a1 over in a2.
SbiResponse_declassify_with_a2(self, hh) ==
    [hh EXCEPT !.gprs.a0 = self.a0, !.gprs.a1 = self.a1, !.gprs.a2 = self.a1,
               !.csrs.mepc = @ + ECALL_INSTRUCTION_LENGTH]

SbiResponse_declassify_to_hypervisor_hart(self, hh) ==
    [hh EXCEPT !.gprs.a0 = self.a0, !.gprs.a1 = self.a1,
               !.csrs.mepc = @ + ECALL_INSTRUCTION_LENGTH]

\* MmioLoadRequest::from_confidential_hart taking mtval from the hart's mepc.
MmioLoadRequest_from_hart_with_mepc(ch) ==
    [mcause |-> ch.csrs.mcause,
     mtval |-> ch.csrs.mepc,
     mtval2 |-> ch.csrs.mtval2,
     mtinst |-> ch.csrs.mtinst]

MmioLoadRequest_from_confidential_hart(ch) ==
    [mcause |-> ch.csrs.mcause,
     mtval |-> ch.csrs.mtval,
     mtval2 |-> ch.csrs.mtval2,
     mtinst |-> ch.csrs.mtinst]

MmioLoadRequest_declassify_to_hypervisor_hart(self, hh) ==
    SbiResponse_declassify_to_hypervisor_hart(
        SbiResponse_success,
        [hh EXCEPT !.csrs.scause = self.mcause,
                   !.csrs.stval = self.mtval,
                   !.shared_memory.htval = self.mtval2,
                   !.shared_memory.htinst = self.mtinst])

is_bit_enabled(value, bit) == (value \div (2 ^ bit)) % 2 = 1

\* riscv_decode::instruction_length: 16-bit unless the two lowest bits are set.
instruction_length(instruction) == IF instruction % 4 = 3 THEN 4 ELSE 2

\* decode_result_register: the rd field of a load, an error for what is not a load.
decode_result_register(instruction) ==
    IF instruction % 128 = 3
    THEN [ok |-> TRUE, gpr |-> (instruction \div 128) % 32]
    ELSE [ok |-> FALSE, error |-> "InvalidRiscvInstruction"]

\* The MMIO regions declared for the confidential VM.
MmioRegion == 4 .. 7

tried_to_access_valid_mmio_region(fault_address) == fault_address \in MmioRegion

\* MmioAccessFault applied to the confidential hart: the trap is injected into the VM.
MmioAccessFault_apply_to_confidential_hart(ch, cause, mtval) ==
    [ch EXCEPT !.csrs.scause = cause, !.csrs.stval = mtval,
                              !.csrs.sepc = ch.csrs.mepc]

\* What a handler of the confidential flow leaves: both harts, the side it exits to
\* and the transformation it applied.
FlowExit(ch, hh, to, transformation, calls) ==
    [confidential_hart |-> ch, hypervisor_hart |-> hh,
     exit_to |-> to, transformation |-> transformation, calls |-> calls]

\* MmioLoadRequest::handle declassifying the request without recording the pending load.
MmioLoadDecoded_without_pending(self, ch, hh, decoded, length) ==
    IF decoded.ok
    THEN FlowExit(ch, MmioLoadRequest_declassify_to_hypervisor_hart(self, hh),
                  "hypervisor", "MmioLoadRequest",
                  <<"into_non_confidential_flow", "declassify_and_exit_to_hypervisor">>)
    ELSE FlowExit(ch,
                  SbiResponse_declassify_to_hypervisor_hart(
                      SbiResponse_error(decoded.error), hh),
                  "hypervisor", "SbiResponse",
                  <<"into_non_confidential_flow", "declassify_and_exit_to_hypervisor">>)

MmioLoadDecoded(self, ch, hh, decoded, length) ==
    IF decoded.ok
    THEN FlowExit([ch EXCEPT !.resumable_operation = <<"MmioLoad", length, decoded.gpr>>],
                  MmioLoadRequest_declassify_to_hypervisor_hart(self, hh),
                  "hypervisor", "MmioLoadRequest",
                  <<"set_resumable_operation", "into_non_confidential_flow",
                    "declassify_and_exit_to_hypervisor">>)
    ELSE FlowExit(ch,
                  SbiResponse_declassify_to_hypervisor_hart(
                      SbiResponse_error(decoded.error), hh),
                  "hypervisor", "SbiResponse",
                  <<"into_non_confidential_flow", "declassify_and_exit_to_hypervisor">>)

\* MmioLoadRequest::handle building the fault from the composed fault address.
MmioLoadChecked_faulting_with_address(self, ch, hh, instruction, length, fault_address) ==
    IF ~tried_to_access_valid_mmio_region(fault_address)
    THEN FlowExit(MmioAccessFault_apply_to_confidential_hart(
                      ch, CAUSE_LOAD_ACCESS, fault_address),
                  hh, "confidential_hart", "MmioAccessFault",
                  <<"apply_and_exit_to_confidential_hart">>)
    ELSE MmioLoadDecoded(self, ch, hh, decode_result_register(instruction), length)

MmioLoadChecked(self, ch, hh, instruction, length, fault_address) ==
    IF ~tried_to_access_valid_mmio_region(fault_address)
    THEN FlowExit(MmioAccessFault_apply_to_confidential_hart(
                      ch, CAUSE_LOAD_ACCESS, self.mtval),
                  hh, "confidential_hart", "MmioAccessFault",
                  <<"apply_and_exit_to_confidential_hart">>)
    ELSE MmioLoadDecoded(self, ch, hh, decode_result_register(instruction), length)

\* MmioLoadRequest::handle on the confidential hart ch and the hypervisor hart hh.
MmioLoadRequest_handle(self, ch, hh) ==
    LET instruction == (self.mtinst - (self.mtinst % 4)) + 3
    IN  IF self.mtinst % 2 = 0
        THEN FlowExit(ch, hh, "panic", "none", <<>>)
        ELSE MmioLoadChecked(self, ch, hh, instruction,
                             IF is_bit_enabled(self.mtinst, 1)
                             THEN instruction_length(instruction) ELSE 2,
                             (self.mtval2 * 4) + (self.mtval % 4))

\* SbiResponse::apply_to_confidential_hart without the step over the ecall.
SbiResponse_apply_keeping_mepc(self, ch) ==
    [ch EXCEPT !.gprs.a0 = self.a0, !.gprs.a1 = self.a1]

\* SbiResponse::apply_to_confidential_hart
SbiResponse_apply_to_confidential_hart(self, ch) ==
    [ch EXCEPT !.gprs.a0 = self.a0, !.gprs.a1 = self.a1,
               !.csrs.mepc = @ + ECALL_INSTRUCTION_LENGTH]

\* ConfidentialFlow::apply_and_exit_to_confidential_hart with an SbiResponse.
ApplySbiResponse(response, ch, hh) ==
    FlowExit(SbiResponse_apply_to_confidential_hart(response, ch), hh,
             "confidential_hart", "SbiResponse", <<"apply_and_exit_to_confidential_hart">>)

\* InvalidCall::from_confidential_hart and InvalidCall::handle
InvalidCall_from_confidential_hart(ch) ==
    [extension_id |-> ch.gprs.a7, function_id |-> ch.gprs.a6]

InvalidCall_handle(self, ch, hh) == ApplySbiResponse(SbiResponse_error("InvalidCall"), ch, hh)

\* SbiRequest::new and its declassification: the hypervisor finds the call in a7, a6,
\* a0 and a1.
SbiRequest_new(extension_id, function_id, a0, a1) ==
    [extension_id |-> extension_id, function_id |-> function_id, a0 |-> a0, a1 |-> a1]

SbiRequest_declassify_to_hypervisor_hart(self, hh) ==
    [hh EXCEPT !.gprs.a7 = self.extension_id, !.gprs.a6 = self.function_id,
               !.gprs.a0 = self.a0, !.gprs.a1 = self.a1]

\* CovgExtension::EXTID ("COVG") and SBI_EXT_COVG_UNSHARE_MEMORY
CovgExtension_EXTID == 1129272903
SBI_EXT_COVG_UNSHARE_MEMORY == 3

\* UnsharePageRequest::unmap_shared_page; unmapped is what try_confidential_vm_mut
\* returned for the unmapping and the broadcast of the remote fence.
UnsharePageRequest_from_confidential_hart(ch) ==
    [address |-> ch.gprs.a0, size |-> ch.gprs.a1]

\* The part of a ConfidentialVm the shared page handlers work on.
VmMemory(pages, commands) == [shared_pages |-> pages, remote_commands |-> commands]

VmResult(result, vm) == [result |-> result, vm |-> vm]

\* ConfidentialVm::broadcast_remote_command: the command is posted to the harts of the
\* VM; broadcast is what the posting answered.
broadcast_remote_command(vm, command, broadcast) ==
    VmResult(broadcast,
             IF broadcast = "Ok"
             THEN [vm EXCEPT !.remote_commands = Append(@, command)]
             ELSE vm)

\* UnsharePageRequest::unmap_shared_page; unmapped is what the memory protector
\* answered to unmap_shared_page: on Ok the page is gone from the mapping and the
\* remote fence is broadcast to all harts.
unmap_shared_page(self, vm, unmapped, broadcast) ==
    IF self.address % in_bytes(0) # 0 THEN VmResult("AddressNotAligned", vm)
    ELSE IF self.size # in_bytes(0) THEN VmResult("InvalidParameter", vm)
    ELSE IF unmapped # "Ok" THEN VmResult(unmapped, vm)
    ELSE broadcast_remote_command(
             [vm EXCEPT !.shared_pages = @ \ {self.address}],
             <<"RemoteHfenceGvmaVmid", self.address, in_bytes(0), "all_harts">>,
             broadcast)

\* UnsharePageRequest::handle answering the hart with the error and going on to the
\* hypervisor.
UnsharePageRequest_handle_exiting_twice(self, ch, hh, unmap_result) ==
    FlowExit(IF unmap_result = "Ok" THEN [ch EXCEPT !.resumable_operation = <<"SbiRequest">>]
             ELSE SbiResponse_apply_to_confidential_hart(SbiResponse_error(unmap_result), ch),
             SbiRequest_declassify_to_hypervisor_hart(
                 SbiRequest_new(CovgExtension_EXTID, SBI_EXT_COVG_UNSHARE_MEMORY,
                                self.address, self.size), hh),
             "hypervisor", "SbiRequest",
             (IF unmap_result = "Ok" THEN <<"set_resumable_operation">>
              ELSE <<"apply_and_exit_to_confidential_hart">>)
             \o <<"into_non_confidential_flow", "declassify_and_exit_to_hypervisor">>)

\* UnsharePageRequest::handle on what unmap_shared_page returned.
UnsharePageRequest_handle(self, ch, hh, unmap_result) ==
    IF unmap_result = "Ok"
    THEN FlowExit([ch EXCEPT !.resumable_operation = <<"SbiRequest">>],
                  SbiRequest_declassify_to_hypervisor_hart(
                      SbiRequest_new(CovgExtension_EXTID, SBI_EXT_COVG_UNSHARE_MEMORY,
                                     self.address, self.size), hh),
                  "hypervisor", "SbiRequest",
                  <<"set_resumable_operation", "into_non_confidential_flow",
                    "declassify_and_exit_to_hypervisor">>)
    ELSE ApplySbiResponse(SbiResponse_error(unmap_result), ch, hh)

\* RemoteFenceI::handle on what broadcast_remote_command returned.
RemoteFenceI_handle(ch, hh, broadcast) ==
    ApplySbiResponse(IF broadcast = "Ok" THEN SbiResponse_success
                     ELSE SbiResponse_error(broadcast), ch, hh)

\* --------------------------------------------------------- control data
VmIds == 1 .. MaxVms
HartIds == 1 .. MaxHarts

\* A confidential VM slot: not registered, or registered with its harts' lifecycle
\* states ("None" for a hart the VM does not have).
NoVm == [registered |-> FALSE, harts |-> [h \in HartIds |-> "None"]]

ConfidentialVm(number_of_harts) ==
    [registered |-> TRUE,
     harts |-> [h \in HartIds |-> IF h = 1 THEN "Started"
                                  ELSE IF h <= number_of_harts THEN "Stopped"
                                  ELSE "None"]]

AllHartsShutdown(vm) == \A h \in HartIds : vm.harts[h] \in {"Shutdown", "None"}

\* remove_confidential_vm removing a VM whose harts have not all shut down.
remove_confidential_vm_any_hart_state(storage, id) ==
    IF ~storage[id].registered
    THEN [ok |-> FALSE, error |-> "InvalidParameter", storage |-> storage]
    ELSE [ok |-> TRUE, error |-> "none", storage |-> [storage EXCEPT ![id] = NoVm]]

\* ControlDataStorage::remove_confidential_vm
remove_confidential_vm(storage, id) ==
    IF ~storage[id].registered
    THEN [ok |-> FALSE, error |-> "InvalidParameter", storage |-> storage]
    ELSE IF ~AllHartsShutdown(storage[id])
    THEN [ok |-> FALSE, error |-> "HartAlreadyRunning", storage |-> storage]
    ELSE [ok |-> TRUE, error |-> "none", storage |-> [storage EXCEPT ![id] = NoVm]]

\* ConfidentialFlow::shutdown_confidential_hart
ConfidentialFlow_shutdown_confidential_hart(storage, id, hart) ==
    [storage EXCEPT ![id].harts[hart] = "Shutdown"]

\* SrstExtension::EXTID ("SRST") and SrstExtension::SYSTEM_RESET_FID
SrstExtension_EXTID == 1397904212
SYSTEM_RESET_FID == 0

\* shutdown_confidential_hart declassifying the reset only when the VM was removed.
shutdown_confidential_hart_exit_when_removed(storage, confidential_vm_id, hh) ==
    LET removed == remove_confidential_vm(storage, confidential_vm_id)
    IN  [storage |-> removed.storage,
         hypervisor_hart |->
             IF removed.ok
             THEN SbiRequest_declassify_to_hypervisor_hart(
                      SbiRequest_new(SrstExtension_EXTID, SYSTEM_RESET_FID, 0, 0), hh)
             ELSE hh,
         calls |-> <<"remove_confidential_vm">>
                   \o (IF removed.ok THEN <<"declassify_and_exit_to_hypervisor">> ELSE <<>>)]

\* shutdown_confidential_hart in the non-confidential flow: the removal is tried, its
\* result is dropped, and the SRST SYSTEM_RESET request goes to the hypervisor.
shutdown_confidential_hart_exit(storage, confidential_vm_id, hh) ==
    [storage |-> remove_confidential_vm(storage, confidential_vm_id).storage,
     hypervisor_hart |->
         SbiRequest_declassify_to_hypervisor_hart(
             SbiRequest_new(SrstExtension_EXTID, SYSTEM_RESET_FID, 0, 0), hh),
     calls |-> <<"remove_confidential_vm", "declassify_and_exit_to_hypervisor">>]

\* DestroyConfidentialVm::handle answering success whatever the removal returned.
DestroyConfidentialVm_handle_ignoring_error(storage, confidential_vm_id) ==
    [storage |-> remove_confidential_vm(storage, confidential_vm_id).storage,
     response |-> SbiResponse_success]

\* DestroyConfidentialVm::handle: the storage after the removal and the response
\* applied to the hypervisor hart.
DestroyConfidentialVm_handle(storage, confidential_vm_id) ==
    LET removed == remove_confidential_vm(storage, confidential_vm_id)
    IN  [storage |-> removed.storage,
         response |-> IF removed.ok THEN SbiResponse_success
                      ELSE SbiResponse_error(removed.error)]

\* ------------------------------------------- the lock of PAGE_ALLOCATOR
\* spin::RwLock::write granting the guard while another hart holds it.
RwLock_write_not_excluding(l, h) == [acquired |-> TRUE, lock |-> l \cup {h}]

\* spin::RwLock::write as try_write calls it: the guard is granted when no hart holds
\* one; the hart spins otherwise.
RwLock_write(l, h) ==
    IF l = {} THEN [acquired |-> TRUE, lock |-> {h}]
    ELSE [acquired |-> FALSE, lock |-> l]

\* Dropping the RwLockWriteGuard at the end of try_write.
RwLockWriteGuard_drop(l, h) == l \ {h}

\* A hart outside the allocator, owning the page tokens in held.
IdleHart(tokens) ==
    [pc |-> "idle", call |-> [op |-> "none", arg |-> 0], guard |-> NoAllocator,
     held |-> tokens]

\* The tokens of seq at the positions in chosen, and those at the other positions.
RECURSIVE Pick(_, _, _)
Pick(seq, chosen, i) ==
    IF i > Len(seq) THEN <<>>
    ELSE (IF i \in chosen THEN <<seq[i]>> ELSE <<>>) \o Pick(seq, chosen, i + 1)

\* The closure of try_write run on the allocator the guard gives access to: the tree
\* it leaves and what the call returns.
try_write(guard, call) ==
    IF call.op = "acquire_page" THEN PageAllocator_acquire_page(guard, call.arg)
    ELSE PageAllocator_release_pages(guard, call.arg)

\* The calls of log from the i-th on, run one after the other on cell, return what the
\* log says and leave the allocator as it is now.
RECURSIVE SequentialRun(_, _, _, _)
SequentialRun(cell, log, i, final) ==
    IF i > Len(log) THEN cell = final
    ELSE /\ try_write(cell, log[i].call).ret = log[i].ret
         /\ ~try_write(cell, log[i].call).panic
         /\ SequentialRun([cell EXCEPT !.nodes = try_write(cell, log[i].call).nodes],
                          log, i + 1, final)

\* ------------------------------------------------------------ HostArch
\* A CSR of the mock is the set of the positions of its 1 bits.
mstatus_SSTATUS_FILTER == {1, 5, 6, 8, 9, 10, 13, 14, 15, 16, 18, 19, 32, 33, 63}
mie_SIE_FILTER == {1, 5, 9, 13}

\* The CSRs of HOST_CTX the model keeps, all zero after VirtContext::new.
VirtContext_new == [f \in {"marchid", "mstatus", "mie", "mip", "hgeip"} |-> {}]

CsrResult(host, value, panic) == [ctx |-> host, value |-> value, panic |-> panic]

\* HostArch::read_csr
read_csr(host, csr) ==
    CASE csr = "Mhartid" -> CsrResult(host, host.marchid, FALSE)
      [] csr = "Mstatus" -> CsrResult(host, host.mstatus, FALSE)
      [] csr = "Mie" -> CsrResult(host, host.mie, FALSE)
      [] csr = "Mip" -> CsrResult(host, host.mip, FALSE)
      [] csr = "Marchid" -> CsrResult(host, host.marchid, FALSE)
      [] csr = "Mtval2" -> CsrResult(host, {}, TRUE)
      [] csr = "Sstatus" -> CsrResult(host, host.mstatus \cap mstatus_SSTATUS_FILTER, FALSE)
      [] csr = "Sie" -> CsrResult(host, host.mie \cap mie_SIE_FILTER, FALSE)
      [] csr = "Sip" -> CsrResult(host, host.mip \cap mie_SIE_FILTER, FALSE)
      [] csr = "Hgeip" -> CsrResult(host, host.hgeip, FALSE)

\* HostArch::write_csr
write_csr(host, csr, value) ==
    LET prev_val == read_csr(host, csr)
    IN  CASE csr = "Mhartid" -> CsrResult([host EXCEPT !.marchid = value], prev_val.value, FALSE)
          [] csr = "Mstatus" -> CsrResult([host EXCEPT !.mstatus = value], prev_val.value, FALSE)
          [] csr = "Mie" -> CsrResult([host EXCEPT !.mie = value], prev_val.value, FALSE)
          [] csr = "Mip" -> CsrResult([host EXCEPT !.mip = value], prev_val.value, FALSE)
          [] csr = "Marchid" -> CsrResult([host EXCEPT !.marchid = value], prev_val.value, FALSE)
          [] csr = "Mtval2" -> CsrResult(host, {}, TRUE)
          [] csr = "Sstatus" ->
                 CsrResult([host EXCEPT !.mstatus = (host.mstatus \ mstatus_SSTATUS_FILTER)
                                            \cup (value \cap mstatus_SSTATUS_FILTER)],
                           prev_val.value, FALSE)
          [] csr = "Sie" ->
                 CsrResult([host EXCEPT !.mie = (host.mie \ mie_SIE_FILTER)
                                            \cap (value \cap mie_SIE_FILTER)],
                           prev_val.value, FALSE)
          [] csr = "Sip" ->
                 CsrResult([host EXCEPT !.mip = (host.mip \ mie_SIE_FILTER)
                                            \cup (value \cap mie_SIE_FILTER)],
                           prev_val.value, FALSE)
          [] csr = "Hgeip" -> CsrResult(host, prev_val.value, FALSE)

\* ------------------------------------------------- memory shared with the hypervisor
\* MemoryLayout::is_in_non_confidential_range
is_in_non_confidential_range(ml, address) ==
    /\ ml.non_confidential_memory_start <= address
    /\ address < ml.non_confidential_memory_end

\* NonConfidentialMemoryAddress::new: the address, if it is one of the non-confidential
\* memory.
NonConfidentialMemoryAddress_new(ml, address) ==
    IF is_in_non_confidential_range(ml, address) THEN AddressOk(address)
    ELSE AddressErr("AddressNotInNonConfidentialMemory")

\* No NACL shared memory was registered.
NoSharedMemory == -1

\* HypervisorHart::set_shared_memory; set is what NaclSharedMemory answered.
HypervisorHart_set_shared_memory(hh, address, set) ==
    VmResult(set, IF set = "Ok" THEN [hh EXCEPT !.shared_memory.base_address = address]
                  ELSE hh)

\* SbiResponse::apply_to_hypervisor_hart of the non-confidential flow.
SbiResponse_apply_to_hypervisor_hart(self, hh) ==
    [hh EXCEPT !.gprs.a0 = self.a0, !.gprs.a1 = self.a1,
               !.csrs.mepc = @ + ECALL_INSTRUCTION_LENGTH]

NaclSetupSharedMemory_from_hypervisor_hart(hh) ==
    [shared_memory_base_address |-> hh.gprs.a0]

\* NaclSetupSharedMemory::apply_to_hypervisor_hart registering the address as it came.
NaclSetupSharedMemory_apply_unchecked(self, ml, hh, set) ==
    LET registered == HypervisorHart_set_shared_memory(
                          hh, self.shared_memory_base_address, set)
    IN  SbiResponse_apply_to_hypervisor_hart(
            IF registered.result = "Ok" THEN SbiResponse_success
            ELSE SbiResponse_error(registered.result),
            registered.vm)

NaclSetupSharedMemory_apply_to_hypervisor_hart(self, ml, hh, set) ==
    LET address == NonConfidentialMemoryAddress_new(ml, self.shared_memory_base_address)
        registered == HypervisorHart_set_shared_memory(hh, address.value, set)
    IN  IF ~address.ok
        THEN SbiResponse_apply_to_hypervisor_hart(SbiResponse_error(address.error), hh)
        ELSE SbiResponse_apply_to_hypervisor_hart(
                 IF registered.result = "Ok" THEN SbiResponse_success
                 ELSE SbiResponse_error(registered.result),
                 registered.vm)

\* What SharedPage::new returns: the page, or the error.
SharedPageOk(hypervisor_address, confidential_vm_address) ==
    [ok |-> TRUE, error |-> "none", hypervisor_address |-> hypervisor_address,
     confidential_vm_address |-> confidential_vm_address]
SharedPageErr(error) ==
    [ok |-> FALSE, error |-> error, hypervisor_address |-> 0,
     confidential_vm_address |-> 0]
NoSharedPageRet == SharedPageErr("NotCalled")

\* SharedPage::SIZE.in_bytes()
SharedPage_SIZE == in_bytes(0)

\* SharedPage::new checking the first byte of the page instead of the last.
SharedPage_new_checking_start(ml, hypervisor_address, confidential_vm_address) ==
    LET start == non_confidential_address_at_offset(ml, hypervisor_address, 0)
    IN  IF start.ok THEN SharedPageOk(hypervisor_address, confidential_vm_address)
        ELSE SharedPageErr(start.error)

SharedPage_new(ml, hypervisor_address, confidential_vm_address) ==
    LET end == non_confidential_address_at_offset(ml, hypervisor_address,
                                                  SharedPage_SIZE - 1)
    IN  IF end.ok THEN SharedPageOk(hypervisor_address, confidential_vm_address)
        ELSE SharedPageErr(end.error)

\* ------------------------------------------------------ interrupt controller
\* The harts the CLINT has an msip register for, and one hart id beyond them.
ClintHarts == 0 .. MaxHarts + 1
HartIdsSent == 0 .. MaxHarts + 2

IpiResult(clint, ret, panic) == [clint |-> clint, ret |-> ret, panic |-> panic]

\* sbi_ipi_send_smode: the result of clint.write_msip is unwrapped, a failed write
\* panics.
sbi_ipi_send_smode(clint, hmask, hbase) ==
    IF hbase \in DOMAIN clint
    THEN IpiResult([clint EXCEPT ![hbase] = hmask], 0, FALSE)
    ELSE IpiResult(clint, 0, TRUE)

\* InterruptController::send_ipi on the hart mhartid.
send_ipi(clint, mhartid, target_hart_id) ==
    IF target_hart_id = mhartid THEN IpiResult(clint, "Ok", FALSE)
    ELSE LET sent == sbi_ipi_send_smode(clint, 1, target_hart_id)
         IN  IF sent.panic THEN IpiResult(sent.clint, "Panic", TRUE)
             ELSE IF sent.ret = 0 THEN IpiResult(sent.clint, "Ok", FALSE)
             ELSE IpiResult(sent.clint, <<"InterruptSendingError", sent.ret>>, FALSE)

\* ======================================================== state machine
vars == <<layoutVars, allocVars, panicked, event, pmpVars, trapVars, declVars, cvmVars,
          lockVars, archVars, mmuVars, clintVars>>

Event(op, arg) == [op |-> op, arg |-> arg]

\* Addresses below the end of the range the root node of the allocator covers.
RootBytes == in_bytes(LargestLevel)

InitMemWith(pages) ==
    /\ layout = NoLayout
    /\ init_ret = NoInitRet
    /\ init_calls = 0
    /\ offset_ret = NoOffsetRet
    /\ allocator = NoAllocator
    /\ held = NoneHeld
    /\ acquire_ret = NoToken
    /\ panicked = FALSE
    /\ event = Event("boot", 0)
    /\ lock = {}
    /\ harts = [h \in HartIds |-> IdleHart(<<>>)]
    /\ history = <<>>
    /\ host_ctx = VirtContext_new
    /\ csr_ret = {}
    /\ shared_pages = pages
    /\ remote_commands = <<>>
    /\ shared_page_ret = NoSharedPageRet
    /\ msip = [h \in ClintHarts |-> 0]
    /\ ipi_ret = "NotCalled"

InitMem == InitMemWith({})

\* What the previous boot stage left in pmpcfg0: nothing, or entries 4 and 5 open.
HwResetCfgs == {{}, open_access_to_confidential_memory({})}

\* The hart at reset and MiralisContext::new.
InitPmp(reset_cfg) ==
    /\ hw_pmp = Pmp(reset_cfg, 0, 0)
    /\ mctx_pmp = PmpGroupNew
    /\ flow = "Boot"
    /\ caches = clear_caches(PmpWritten)

\* VirtContext::new: no exit yet, the firmware runs in virtual M-mode.
InitTrap(limit) ==
    /\ ctx = [nb_exits |-> 0, mode |-> "M",
              regs |-> [r \in {"a0", "a1", "a2", "a6", "a7"} |-> 0]]
    /\ dispatched = 0
    /\ max_exit = limit
    /\ aborted = FALSE
    /\ trap_calls = <<>>

TrapCsrs(mcause, mtval, mtval2, mtinst) ==
    [mcause |-> mcause, mtval |-> mtval, mtval2 |-> mtval2, mtinst |-> mtinst]

\* The confidential hart that trapped and a twin that differs from it in mepc and a0
\* only; both runs start from the same hypervisor hart.
InitDecl(trap, mepc, a0, twin_mepc, twin_a0, fill) ==
    /\ confidential_hart = ConfidentialHart(trap, mepc, a0)
    /\ hypervisor_hart = FilledHypervisorHart(fill)
    /\ exit_to = "none"
    /\ twin = FlowExit(ConfidentialHart(trap, twin_mepc, twin_a0),
                       FilledHypervisorHart(fill), "none", "none", <<>>)
    /\ flow_calls = <<>>

InitDeclIdle == InitDecl(TrapCsrs(0, 0, 0, 0), 0, 0, 0, 0, 0)

\* ControlDataStorage at boot: no confidential VM.
InitCvm ==
    /\ cvms = [id \in VmIds |-> NoVm]
    /\ pending_shutdown = {}
    /\ destroy_ret = SbiResponse(0, 0)
    /\ last_shutdown = [id \in VmIds |-> 0]

\* MemoryLayout::init(ncs, nce, cs, ce)
LayoutInitResult(r) ==
    /\ layout' = r.cell
    /\ init_ret' = r.ret
    /\ panicked' = (r.ret.result = "Panic")

LayoutInit(ncs, nce, cs, ce) ==
    /\ ~panicked
    /\ init_calls < MaxInitCalls
    /\ LayoutInitResult(MemoryLayout_init(layout, ncs, nce, cs, ce))
    /\ init_calls' = init_calls + 1
    /\ event' = Event("MemoryLayout::init", <<ncs, nce, cs, ce>>)
    /\ UNCHANGED <<offset_ret, allocVars, pmpVars, trapVars, lockVars, archVars, mmuVars, clintVars,
                   declVars, cvmVars>>

\* PageAllocator::initialize with the bounds MemoryLayout::init returned at boot.
AllocatorInitializeResult(r) ==
    /\ allocator' = r.cell
    /\ panicked' = r.panic
    /\ event' = Event("PageAllocator::initialize", IF r.ret = "Ok" THEN 0 ELSE 1)

AllocatorInitialize ==
    /\ ~panicked
    /\ init_ret.result = "Ok"
    /\ AllocatorInitializeResult(
           PageAllocator_initialize(allocator, layout, init_ret.start, init_ret.end))
    /\ UNCHANGED <<layoutVars, held, acquire_ret, pmpVars, trapVars, lockVars, archVars, mmuVars, clintVars,
                   declVars, cvmVars>>

\* PageAllocator::acquire_page(page_size_to_allocate)
AcquirePageResult(st) ==
    /\ allocator' = [allocator EXCEPT !.nodes = st.nodes]
    /\ panicked' = st.panic
    /\ acquire_ret' = st.ret
    /\ held' = IF st.panic \/ st.ret = OutOfPages \/ st.ret = NoToken
               THEN held ELSE Hold(held, st.ret)

AcquirePage(page_size_to_allocate) ==
    /\ ~panicked
    /\ allocator.set
    /\ AcquirePageResult(PageAllocator_acquire_page(allocator, page_size_to_allocate))
    /\ event' = Event("acquire_page", page_size_to_allocate)
    /\ UNCHANGED <<layoutVars, pmpVars, trapVars, lockVars, archVars, mmuVars, clintVars, declVars, cvmVars>>

\* PageAllocator::release_pages(released_pages), of tokens acquired before.
ReleasePagesResult(st) ==
    /\ allocator' = [allocator EXCEPT !.nodes = st.nodes]
    /\ panicked' = st.panic

ReleasePages(released_pages) ==
    /\ ~panicked
    /\ allocator.set
    /\ released_pages # <<>>
    /\ ReleasePagesResult(PageAllocator_release_pages(allocator, released_pages))
    /\ held' = UnholdAll(held, released_pages)
    /\ event' = Event("release_pages", released_pages)
    /\ UNCHANGED <<layoutVars, acquire_ret, pmpVars, trapVars, lockVars, archVars, mmuVars, clintVars,
                   declVars, cvmVars>>

\* The memory the platform reports at boot: non-confidential memory [0, 1), then
\* confidential memory with aligned and unaligned bounds in the upper part of the
\* range the root node covers, and the empty confidential memory that fails the assert.
BootStarts == {RootBytes \div 2 - 3, RootBytes \div 2 - 1, RootBytes \div 2}
BootEnds == {RootBytes \div 2, RootBytes - 3, RootBytes - 1, RootBytes}

\* The boot of the memory subsystem: one MemoryLayout::init, then the allocator.
BootLayoutInit ==
    /\ init_calls = 0
    /\ \E cs \in BootStarts, ce \in BootEnds : LayoutInit(0, 1, cs, ce)

NextAlloc ==
    \/ BootLayoutInit
    \/ AllocatorInitialize
    \/ \E size \in PageSizes : AcquirePage(size)
    \/ \E pages \in HeldSeqs(held, MaxReleaseLen) : ReleasePages(pages)

InitAlloc == InitMem /\ InitPmp({}) /\ InitTrap(NoMaxExit) /\ InitDeclIdle /\ InitCvm

SpecAlloc == InitAlloc /\ [][NextAlloc]_vars

\* ------------------------------------------------ allocator properties
FreeNodes == {n \in NodeIds : allocator.nodes[n].page_token # NoToken}
FreeTokens == {allocator.nodes[n].page_token : n \in FreeNodes}
NodeSize(n) == LargestLevel - Len(n)
ConfidentialWindow ==
    layout.confidential_memory_start .. layout.confidential_memory_end - 1

\* C1 (allocator conservation): every token acquire_page returned and the caller
\* still owns was handed out once, lies inside the confidential memory window given
\* to initialize, and is disjoint from every other live token, held by a caller or
\* free in the tree.
AllocatorConservation ==
    allocator.set =>
        \A t \in HeldTokens(held) :
            /\ held[t] = 1
            /\ TokenBytes(t) \subseteq ConfidentialWindow
            /\ \A u \in HeldTokens(held) \ {t} : TokenBytes(t) \cap TokenBytes(u) = {}
            /\ \A n \in FreeNodes :
                   TokenBytes(t) \cap TokenBytes(allocator.nodes[n].page_token) = {}

\* acquire_page has just returned a token while another token is held and a third
\* one is free in the tree.
AllocatorConservationWitness ==
    /\ event.op = "acquire_page"
    /\ acquire_ret \in HeldTokens(held)
    /\ Cardinality(HeldTokens(held)) >= 2
    /\ FreeNodes # {}

\* Every token below node n is free: n holds its token or all its children are free.
RECURSIVE NodeFullyFree(_)
NodeFullyFree(n) ==
    \/ allocator.nodes[n].page_token # NoToken
    \/ /\ Len(n) < LargestLevel
       /\ \A i \in 0 .. Fanout - 1 : NodeFullyFree(Append(n, i))

\* C2 (buddy merge): when every token under a node has been stored back, the node
\* holds the merged token (so no node is left with all its children holding tokens,
\* at any level), and acquire_page of the node's size succeeds at once.
AllocatorBuddyMerge ==
    (allocator.set /\ ~panicked) =>
        \A n \in NodeIds :
            NodeFullyFree(n) =>
                /\ allocator.nodes[n].page_token # NoToken
                /\ ~PageAllocator_acquire_page(allocator, NodeSize(n)).panic
                /\ PageAllocator_acquire_page(allocator, NodeSize(n)).ret.size = NodeSize(n)

\* release_pages has just stored one page of the smallest size, and the node two
\* sizes above it holds a token: the merge went up two levels.
AllocatorBuddyMergeWitness ==
    /\ event.op = "release_pages"
    /\ Len(event.arg) = 1
    /\ event.arg[1].size = 0
    /\ \E n \in FreeNodes :
           /\ NodeSize(n) = 2
           /\ event.arg[1].address \in TokenBytes(allocator.nodes[n].page_token)

\* The bytes the free tokens of the tree own.
FreeBytes == UNION {TokenBytes(t) : t \in FreeTokens}

\* Token t could not be larger: the aligned page of the next size that contains it
\* does not lie inside the window.
LargestThatFits(t) ==
    \/ t.size = LargestLevel
    \/ ~(TokenBytes(Token(t.address - (t.address % in_bytes(t.size + 1)), t.size + 1))
             \subseteq ConfidentialWindow)

\* C14 (allocator population): right after PageAllocator::initialize returned Ok over the window
\* [start, end) the free tokens of the tree are aligned to their size, pairwise
\* disjoint, cover exactly [start, end), and each is the largest aligned token that
\* fits (so their number is the least possible).
AllocatorPopulation ==
    (event = Event("PageAllocator::initialize", 0) /\ allocator.set) =>
        /\ \A t \in FreeTokens : is_aligned_to(t.address, in_bytes(t.size))
        /\ \A t \in FreeTokens : \A u \in FreeTokens \ {t} :
               TokenBytes(t) \cap TokenBytes(u) = {}
        /\ FreeBytes = ConfidentialWindow
        /\ \A t \in FreeTokens : LargestThatFits(t)

\* C15 (acquire contract): acquire_page(s) returns OutOfPages exactly when the tree
\* holds no free token of size >= s, and then leaves the free tokens as they were;
\* otherwise it returns a token of size exactly s whose address is a multiple of the
\* size, and no assertion or unwrap fires in either case.
AcquireContract ==
    [][event'.op = "acquire_page" =>
           /\ ~panicked'
           /\ IF \A t \in FreeTokens : t.size < event'.arg
              THEN acquire_ret' = OutOfPages /\ FreeTokens' = FreeTokens
              ELSE /\ acquire_ret'.size = event'.arg
                   /\ is_aligned_to(acquire_ret'.address, in_bytes(event'.arg))]_vars

\* acquire_page has just failed with OutOfPages although the tree holds a free token
\* (a smaller one) and a caller holds a token acquired by splitting.
AcquireContractWitness ==
    /\ event.op = "acquire_page"
    /\ acquire_ret = OutOfPages
    /\ FreeTokens # {}
    /\ \E t \in HeldTokens(held) : t.size < LargestLevel - 1

\* The free tokens PageAllocator::initialize put in the tree.
InitialFreeTokens ==
    LET nodes == add_memory_region(TreeState(EmptyTree, FALSE, "Ok"), layout,
                                   init_ret.start, init_ret.end).nodes
    IN  {nodes[n].page_token : n \in {m \in NodeIds : nodes[m].page_token # NoToken}}

PolicyInitSplitResult(r) ==
    /\ mctx_pmp' = r.mctx
    /\ hw_pmp' = r.hw
    /\ caches' = IF r.ret = "Ok" THEN clear_caches(PmpWritten) ELSE caches
    /\ flow' = IF r.ret = "Ok" THEN "Split" ELSE "Boot"
    /\ panicked' = (r.ret # "Ok")

PolicyInitSplit ==
    /\ ~panicked
    /\ flow = "Boot"
    /\ init_ret.result = "Ok"
    /\ PolicyInitSplitResult(split_memory_into_confidential_and_non_confidential(
           mctx_pmp, hw_pmp, init_ret.start, init_ret.end))
    /\ event' = Event("split_memory_into_confidential_and_non_confidential", 0)
    /\ UNCHANGED <<layoutVars, allocVars, trapVars, lockVars, archVars, mmuVars, clintVars, declVars, cvmVars>>

\* main: "Update the PMPs prior to first entry", then main_loop.
BootWritePmp ==
    /\ ~panicked
    /\ flow = "Split"
    /\ hw_pmp' = write_pmp(mctx_pmp)
    /\ caches' = PmpFlush_flush(PmpWritten)
    /\ flow' = "NonConfidential"
    /\ event' = Event("write_pmp", 0)
    /\ UNCHANGED <<layoutVars, allocVars, trapVars, lockVars, archVars, mmuVars, clintVars,
                   declVars, cvmVars, mctx_pmp, panicked>>

\* The hypervisor resumes a confidential hart: the window is opened.
EnterConfidentialFlow ==
    /\ ~panicked /\ ~aborted
    /\ flow = "NonConfidential"
    /\ hw_pmp' = [hw_pmp EXCEPT !.pmpcfg0 = open_access_to_confidential_memory(@)]
    /\ caches' = clear_caches(PmpWritten)
    /\ flow' = "Confidential"
    /\ event' = Event("open_access_to_confidential_memory", 0)
    /\ UNCHANGED <<layoutVars, allocVars, trapVars, lockVars, archVars, mmuVars, clintVars,
                   declVars, cvmVars, mctx_pmp, panicked>>

\* The confidential hart exits to the hypervisor: the window is closed.
ExitConfidentialFlow ==
    /\ ~panicked /\ ~aborted
    /\ flow = "Confidential"
    /\ hw_pmp' = [hw_pmp EXCEPT !.pmpcfg0 = close_access_to_confidential_memory(@)]
    /\ caches' = clear_caches(PmpWritten)
    /\ flow' = "NonConfidential"
    /\ event' = Event("close_access_to_confidential_memory", 0)
    /\ UNCHANGED <<layoutVars, allocVars, trapVars, lockVars, archVars, mmuVars, clintVars,
                   declVars, cvmVars, mctx_pmp, panicked>>

\* Back in the monitor's loop after a call served in the non-confidential flow.
MonitorSwitchSync ==
    /\ ~panicked /\ ~aborted
    /\ flow = "NonConfidential"
    /\ ctx' = overwrite_virtctx_regs(ctx, hypervisor_hart)
    /\ mctx_pmp' = overwrite_virtctx_with_hardware_hart(mctx_pmp, hw_pmp)
    /\ event' = Event("overwrite_virtctx_with_hardware_hart", 0)
    /\ UNCHANGED <<layoutVars, allocVars, dispatched, max_exit, aborted, trap_calls,
                   lockVars, archVars, mmuVars, clintVars,
                   declVars, cvmVars, hw_pmp, flow, caches, panicked>>

\* One round of main_loop: the guest traps and handle_trap runs.
HandleTrapResult(r) ==
    /\ ctx' = r.ctx
    /\ aborted' = (r.outcome = "exit_failure")
    /\ trap_calls' = r.calls
    /\ panicked' = (r.outcome = "handle_miralis_trap")
    /\ dispatched' = IF r.outcome \in {"Firmware", "Payload"}
                     THEN dispatched + 1 ELSE dispatched
    /\ hw_pmp' = IF r.write_pmp THEN write_pmp(mctx_pmp) ELSE hw_pmp
    /\ caches' = IF r.write_pmp THEN PmpFlush_flush(PmpWritten) ELSE caches
    /\ event' = Event("handle_trap", r.outcome)

HandleTrap(is_from_mmode, next_mode) ==
    /\ ~panicked /\ ~aborted
    /\ flow = "NonConfidential"
    /\ dispatched < MaxTraps
    /\ HandleTrapResult(handle_trap(ctx, max_exit, is_from_mmode, next_mode))
    /\ UNCHANGED <<layoutVars, allocVars, declVars, cvmVars, mctx_pmp, flow, max_exit,
                   lockVars, archVars, mmuVars, clintVars>>

InitMonitor ==
    /\ InitMem
    /\ \E reset_cfg \in HwResetCfgs : InitPmp(reset_cfg)
    /\ \E limit \in {NoMaxExit} \cup (0 .. MaxExitLimit) : InitTrap(limit)
    /\ \E fill \in 0 .. MaxVal : InitDecl(TrapCsrs(0, 0, 0, 0), 0, 0, 0, 0, fill)
    /\ InitCvm

NextMonitor ==
    \/ BootLayoutInit
    \/ PolicyInitSplit
    \/ BootWritePmp
    \/ EnterConfidentialFlow
    \/ ExitConfidentialFlow
    \/ MonitorSwitchSync
    \/ \E is_from_mmode \in BOOLEAN, next_mode \in {"U", "S", "M"} :
           HandleTrap(is_from_mmode, next_mode)

SpecMonitor == InitMonitor /\ [][NextMonitor]_vars

\* ------------------------------------------------------ PMP properties
PmpEntryPermissions(pmpcfg0, i) ==
    {b \in PMP_PERMISSION_RWX_MASK : b + 8 * i \in pmpcfg0}

\* Entry i lets S- and U-mode read, write or execute what it matches.
PmpEntryGrants(pmpcfg0, i) == PmpEntryPermissions(pmpcfg0, i) # {}

\* C3 (PMP closure): from the end of split_memory_into_confidential_and_non_confidential
\* on, whenever the hart is not in the confidential flow, entries 4 and 5 of the
\* hart's PMP grant no read, write or execute access to any address of the
\* confidential memory window.
PmpClosure ==
    flow \in {"Split", "NonConfidential"} =>
        \A a \in ConfidentialWindow, i \in {4, 5} : ~PmpEntryGrants(hw_pmp.pmpcfg0, i)

\* The window was opened and closed again and a world switch has committed the PMP
\* group since: entry 5 is a TOR entry over the window without permissions.
PmpClosureWitness ==
    /\ flow = "NonConfidential"
    /\ event.op = "handle_trap"
    /\ ConfidentialWindow # {}
    /\ 43 \in hw_pmp.pmpcfg0
    /\ hw_pmp.pmpaddr5 = layout.confidential_memory_end

\* The bits of pmpcfg0 that configure entry i.
PmpEntryBits(pmpcfg0, i) == {b \in pmpcfg0 : b \div 8 = i}

BothFences == [sfence_vma |-> TRUE, hfence_gvma |-> TRUE]

\* C17 (closing, as the spec states it): close_access_to_confidential_memory clears
\* the TOR bit of entry 5, leaves the R, W and X bits of entries 4 and 5 as they
\* were, and issues sfence.vma and hfence.gvma.
CloseClearsTor ==
    [][event'.op = "close_access_to_confidential_memory" =>
           /\ 43 \notin hw_pmp'.pmpcfg0
           /\ \A i \in {4, 5} : PmpEntryPermissions(hw_pmp'.pmpcfg0, i)
                                    = PmpEntryPermissions(hw_pmp.pmpcfg0, i)
           /\ caches' = BothFences]_vars

\* C17 (closing, as the code does it): close_access_to_confidential_memory clears
\* the R, W and X bits of entries 4 and 5, leaves every other bit of pmpcfg0 (the TOR
\* bit of entry 5 among them) as it was, and issues sfence.vma and hfence.gvma.
CloseClearsPermissions ==
    [][event'.op = "close_access_to_confidential_memory" =>
           /\ \A i \in {4, 5} : PmpEntryPermissions(hw_pmp'.pmpcfg0, i) = {}
           /\ \A b \in (0 .. 63) \ (ShiftLeft(PMP_PERMISSION_RWX_MASK, 32)
                                      \cup ShiftLeft(PMP_PERMISSION_RWX_MASK, 40)) :
                  b \in hw_pmp'.pmpcfg0 <=> b \in hw_pmp.pmpcfg0
           /\ caches' = BothFences]_vars

\* The window was open and has just been closed: entry 5 is still a TOR entry, the
\* permissions of entries 4 and 5 are gone and both fences were issued.
CloseClearsPermissionsWitness ==
    /\ event.op = "close_access_to_confidential_memory"
    /\ 43 \in hw_pmp.pmpcfg0
    /\ ~PmpEntryGrants(hw_pmp.pmpcfg0, 4) /\ ~PmpEntryGrants(hw_pmp.pmpcfg0, 5)
    /\ caches = BothFences

\* C18 (opening): open_access_to_confidential_memory sets R, W and X of entry 4 and
\* TOR, R, W and X of entry 5 in pmpcfg0 and has issued sfence.vma and hfence.gvma
\* when it returns, so both fences were issued after the last PMP write whenever the
\* hart is in the confidential flow.
OpenSetsAndFences ==
    /\ [][event'.op = "open_access_to_confidential_memory" =>
              /\ PmpEntryPermissions(hw_pmp'.pmpcfg0, 4) = PMP_PERMISSION_RWX_MASK
              /\ PmpEntryPermissions(hw_pmp'.pmpcfg0, 5) = PMP_PERMISSION_RWX_MASK
              /\ 43 \in hw_pmp'.pmpcfg0
              /\ caches' = BothFences]_vars
    /\ [](flow = "Confidential" => caches = BothFences)

\* The window was closed by an earlier exit and has been opened again.
OpenSetsAndFencesWitness ==
    /\ event.op = "open_access_to_confidential_memory"
    /\ flow = "Confidential"
    /\ ctx.nb_exits > 0
    /\ PmpEntryGrants(hw_pmp.pmpcfg0, 4) /\ PmpEntryGrants(hw_pmp.pmpcfg0, 5)
    /\ caches = BothFences

\* C19 (PMP frame): a call of open_access_to_confidential_memory or
\* close_access_to_confidential_memory changes nothing but the configuration bytes of
\* entries 4 and 5 in pmpcfg0: the bytes of entries 0-3 and 6-7 and the pmpaddr
\* registers stay as they were.
PmpFrame ==
    [][event'.op \in {"open_access_to_confidential_memory",
                      "close_access_to_confidential_memory"} =>
           /\ \A i \in (0 .. 7) \ {4, 5} :
                  PmpEntryBits(hw_pmp'.pmpcfg0, i) = PmpEntryBits(hw_pmp.pmpcfg0, i)
           /\ hw_pmp'.pmpaddr4 = hw_pmp.pmpaddr4
           /\ hw_pmp'.pmpaddr5 = hw_pmp.pmpaddr5]_vars

\* The window has been opened while another entry of pmpcfg0 is configured and the
\* pmpaddr registers of the pair hold the bounds of the confidential memory.
PmpFrameWitness ==
    /\ event.op = "open_access_to_confidential_memory"
    /\ PmpEntryBits(hw_pmp.pmpcfg0, 7) # {}
    /\ hw_pmp.pmpaddr5 = layout.confidential_memory_end
    /\ hw_pmp.pmpaddr5 > hw_pmp.pmpaddr4

\* --------------------------------------------------- trap loop properties
\* Call a was made by the last handle_trap, and call a before call b.
Called(calls, a) == \E i \in DOMAIN calls : calls[i] = a
CalledBefore(calls, a, b) ==
    \E i, j \in DOMAIN calls : i < j /\ calls[i] = a /\ calls[j] = b

\* C21 (world-switch hooks): a handle_trap that dispatches chooses the handler from
\* the execution mode held before handling; the firmware-to-payload context switch
\* and then policy hook run iff that mode was Firmware and the mode after handling is
\* Payload, the payload-to-firmware ones iff Payload then Firmware, no switch hook
\* runs when the execution mode is unchanged, and every switch is followed, as the
\* last call, by the commit of the PMP group to the hardware.
WorldSwitchHooks ==
    [][(event'.op = "handle_trap" /\ event'.arg \in {"Firmware", "Payload"}) =>
           LET before == to_exec_mode(ctx.mode)
               after == to_exec_mode(ctx'.mode)
               f2p == before = "Firmware" /\ after = "Payload"
               p2f == before = "Payload" /\ after = "Firmware"
           IN  /\ trap_calls'[1] = (IF before = "Firmware" THEN "handle_firmware_trap"
                                                            ELSE "handle_payload_trap")
               /\ ~Called(Tail(trap_calls'), "handle_firmware_trap")
               /\ ~Called(Tail(trap_calls'), "handle_payload_trap")
               /\ Called(trap_calls', "ctx.switch_from_firmware_to_payload") <=> f2p
               /\ Called(trap_calls', "policy.switch_from_firmware_to_payload") <=> f2p
               /\ Called(trap_calls', "ctx.switch_from_payload_to_firmware") <=> p2f
               /\ Called(trap_calls', "policy.switch_from_payload_to_firmware") <=> p2f
               /\ f2p => CalledBefore(trap_calls', "ctx.switch_from_firmware_to_payload",
                                      "policy.switch_from_firmware_to_payload")
               /\ p2f => CalledBefore(trap_calls', "ctx.switch_from_payload_to_firmware",
                                      "policy.switch_from_payload_to_firmware")
               /\ (f2p \/ p2f) =>
                      /\ trap_calls'[Len(trap_calls')] = "write_pmp"
                      /\ hw_pmp' = write_pmp(mctx_pmp)
                      /\ caches' = PmpFlush_flush(PmpWritten)
               /\ ~(f2p \/ p2f) => ~Called(trap_calls', "write_pmp") /\ hw_pmp' = hw_pmp]_vars

\* The payload has just trapped into the firmware (payload-to-firmware hooks and the
\* commit) after an earlier switch from the firmware to the payload.
WorldSwitchHooksWitness ==
    /\ event = Event("handle_trap", "Payload")
    /\ ctx.mode = "M"
    /\ ctx.nb_exits > 1
    /\ trap_calls = <<"handle_payload_trap", "check_and_inject_interrupts",
                      "ctx.switch_from_payload_to_firmware",
                      "policy.switch_from_payload_to_firmware", "write_pmp">>

\* C20 (traps from M-mode are fatal): when handle_trap runs on a trap taken in M-mode
\* it dispatches to no handler, leaves nb_exits and the virtual hart as they were,
\* commits no PMP, and the monitor stops; once it has stopped no step follows, so
\* the guest is not entered again.
TrapFromMmodeFatal ==
    /\ [][\A next_mode \in {"U", "S", "M"} :
              HandleTrap(TRUE, next_mode) =>
                  /\ event'.arg \in {"handle_miralis_trap", "exit_failure"}
                  /\ ctx' = ctx
                  /\ trap_calls' = <<>>
                  /\ dispatched' = dispatched
                  /\ hw_pmp' = hw_pmp
                  /\ panicked' \/ aborted']_vars
    /\ [][~(panicked \/ aborted)]_vars

\* The monitor has stopped in handle_miralis_trap after it had dispatched traps of
\* the firmware and of the payload.
TrapFromMmodeFatalWitness ==
    /\ event = Event("handle_trap", "handle_miralis_trap")
    /\ panicked
    /\ ctx.nb_exits > 1
    /\ ctx.mode # "M"

\* C7 (exit count): nb_exits always equals the number of traps dispatched to the
\* firmware or payload handler; no step decreases it and a step increases it by
\* one exactly when it dispatches a trap.
ExitCount ==
    /\ [](ctx.nb_exits = dispatched)
    /\ [][/\ ctx'.nb_exits >= ctx.nb_exits
          /\ ctx'.nb_exits - ctx.nb_exits = dispatched' - dispatched
          /\ dispatched' - dispatched \in {0, 1}]_vars

\* Traps were dispatched to both handlers and the last trap was not dispatched.
ExitCountWitness ==
    /\ ctx.nb_exits >= 2
    /\ event.op = "handle_trap"
    /\ event.arg \in {"exit_failure", "handle_miralis_trap"}

\* C8 (exit limit): with max_firmware_exits = N the hart is aborted only when the
\* number of exits has exceeded N.
ExitLimit == aborted => ctx.nb_exits > max_exit

\* ============================================== MemoryLayout::init, repeatedly
\* The bounds a caller may pass: the three assert!s, the alignment of the start, the
\* trimming of the end and too small a memory all occur.
LayoutAddresses == 0 .. 3 * SmallestPageBytes

NextLayout ==
    \E ncs \in 0 .. 1, nce \in 1 .. 2, cs \in LayoutAddresses, ce \in LayoutAddresses :
        LayoutInit(ncs, nce, cs, ce)

SpecLayout == InitAlloc /\ [][NextLayout]_vars

\* C9 (init once): a call of MemoryLayout::init made after the layout has been
\* initialised fails (with Error::Reinitialization): it never returns Ok.
InitOnce ==
    [][(layout.set /\ init_calls' > init_calls) => init_ret'.result # "Ok"]_vars

\* The smallest address from cs on that is a multiple of the smallest page size.
FirstAlignedFrom(cs) ==
    CHOOSE a \in cs .. cs + SmallestPageBytes - 1 : a % SmallestPageBytes = 0

\* The returned start is the first aligned address, the returned end is the last
\* address up to ce a whole number of smallest pages away from it.
NormalisedReturn(ret, cs, ce) ==
    /\ ret.result = "Ok"
    /\ ret.start = FirstAlignedFrom(cs)
    /\ ret.end <= ce
    /\ (ret.end - ret.start) % SmallestPageBytes = 0
    /\ ret.end + SmallestPageBytes > ce

\* C11 (layout normalisation): a call init(_, _, cs, ce) that passes the assert!s fails
\* with NotEnoughMemory when no aligned address from cs on lies below ce; otherwise it
\* returns the first aligned address from cs on as start and the largest end up to ce
\* that is a whole number of smallest pages above start, and the layout stored in
\* MEMORY_LAYOUT has the returned pair as its confidential bounds.
LayoutNormalised ==
    [][(event'.op = "MemoryLayout::init" /\ init_calls' = init_calls + 1 /\ ~panicked') =>
           IF FirstAlignedFrom(event'.arg[3]) >= event'.arg[4]
           THEN init_ret'.result = "NotEnoughMemory"
           ELSE /\ NormalisedReturn(init_ret', event'.arg[3], event'.arg[4])
                /\ layout'.set
                /\ layout'.confidential_memory_start = init_ret'.start
                /\ layout'.confidential_memory_end = init_ret'.end]_vars

\* C10 (write once): once MEMORY_LAYOUT is set, no later call of init changes the four
\* bounds MemoryLayout::read() returns, whatever that call returns to its caller.
LayoutWriteOnce == [][layout.set => layout' = layout]_vars

\* A second init returned Ok with bounds that are not the bounds of the layout.
LayoutWriteOnceWitness ==
    /\ init_calls >= 2
    /\ layout.set
    /\ init_ret.result = "Ok"
    /\ init_ret.start # layout.confidential_memory_start
    /\ init_ret.end # layout.confidential_memory_end

\* ============================================== MMIO load declassification
\* mtinst values: not an instruction (bit 0 clear), a compressed pseudo load, lw with
\* rd = 5, and an instruction that is not a load.
MtinstValues == {0, 1, 643, 51}

BootWholeLayoutInit ==
    /\ init_calls = 0
    /\ LayoutInit(0, 1, RootBytes \div 2, RootBytes)

\* The exit of a handler of the confidential flow: into_non_confidential_flow closes
\* the window before the hypervisor runs.
ExitFlowResult(r) ==
    /\ confidential_hart' = r.confidential_hart
    /\ hypervisor_hart' = r.hypervisor_hart
    /\ exit_to' = r.exit_to
    /\ flow_calls' = r.calls
    /\ panicked' = (r.exit_to = "panic")
    /\ flow' = IF r.exit_to = "hypervisor" THEN "NonConfidential" ELSE flow
    /\ hw_pmp' = IF r.exit_to = "hypervisor"
                 THEN [hw_pmp EXCEPT !.pmpcfg0 = close_access_to_confidential_memory(@)]
                 ELSE hw_pmp
    /\ caches' = IF r.exit_to = "hypervisor" THEN clear_caches(PmpWritten) ELSE caches

MmioLoadTrapResult(r, t) ==
    /\ ExitFlowResult(r)
    /\ twin' = t
    /\ event' = Event("MmioLoadRequest::handle", r.transformation)

\* The confidential hart traps on a load: MmioLoadRequest::from_confidential_hart and
\* MmioLoadRequest::handle run, on the hart and on its twin.
MmioLoadTrap ==
    /\ ~panicked
    /\ flow = "Confidential"
    /\ exit_to = "none"
    /\ MmioLoadTrapResult(
           MmioLoadRequest_handle(MmioLoadRequest_from_confidential_hart(confidential_hart),
                                  confidential_hart, hypervisor_hart),
           MmioLoadRequest_handle(
               MmioLoadRequest_from_confidential_hart(twin.confidential_hart),
               twin.confidential_hart, twin.hypervisor_hart))
    /\ UNCHANGED <<layoutVars, allocVars, trapVars, lockVars, archVars, mmuVars, clintVars, cvmVars, mctx_pmp>>

InitDeclassify ==
    /\ InitMem
    /\ InitPmp({})
    /\ InitTrap(NoMaxExit)
    /\ InitCvm
    /\ \E mcause \in 0 .. MaxVal, mtval \in 0 .. MaxVal, mtval2 \in 0 .. MaxVal,
          mtinst \in MtinstValues, mepc \in 0 .. MaxVal, a0 \in 0 .. MaxVal,
          twin_mepc \in 0 .. MaxVal, twin_a0 \in 0 .. MaxVal, fill \in 0 .. MaxVal :
           InitDecl(TrapCsrs(mcause, mtval, mtval2, mtinst),
                    mepc, a0, twin_mepc, twin_a0, fill)

NextDeclassify ==
    \/ BootWholeLayoutInit
    \/ PolicyInitSplit
    \/ BootWritePmp
    \/ EnterConfidentialFlow
    \/ MmioLoadTrap

SpecDeclassify == InitDeclassify /\ [][NextDeclassify]_vars

\* The hypervisor registers a step left as they were, but for those in written.
KeepsAllBut(bank, written) ==
    \A r \in DOMAIN hypervisor_hart[bank] \ written :
        hypervisor_hart'[bank][r] = hypervisor_hart[bank][r]

\* C4 (declassification frame): declassifying an MmioLoadRequest writes scause, stval,
\* the NACL fields htval and htinst with mcause, mtval, mtval2 and mtinst, a0 and a1
\* with 0, and advances mepc by the length of an ecall; declassifying an SbiResponse
\* writes a0, a1 and mepc; every other GPR, CSR and NACL field of the hypervisor hart
\* keeps its value.
DeclassificationFrame ==
    [][/\ (event'.op = "MmioLoadRequest::handle" /\ event'.arg = "MmioLoadRequest") =>
            /\ hypervisor_hart'.csrs.scause = confidential_hart.csrs.mcause
            /\ hypervisor_hart'.csrs.stval = confidential_hart.csrs.mtval
            /\ hypervisor_hart'.shared_memory.htval = confidential_hart.csrs.mtval2
            /\ hypervisor_hart'.shared_memory.htinst = confidential_hart.csrs.mtinst
            /\ hypervisor_hart'.gprs.a0 = 0
            /\ hypervisor_hart'.gprs.a1 = 0
            /\ hypervisor_hart'.csrs.mepc = hypervisor_hart.csrs.mepc + 4
            /\ KeepsAllBut("gprs", {"a0", "a1"})
            /\ KeepsAllBut("csrs", {"scause", "stval", "mepc"})
            /\ KeepsAllBut("shared_memory", {"htval", "htinst"})
       /\ (event'.op = "MmioLoadRequest::handle" /\ event'.arg = "SbiResponse") =>
            /\ hypervisor_hart'.gprs.a0 # 0
            /\ hypervisor_hart'.gprs.a1 = 0
            /\ hypervisor_hart'.csrs.mepc = hypervisor_hart.csrs.mepc + 4
            /\ KeepsAllBut("gprs", {"a0", "a1"})
            /\ KeepsAllBut("csrs", {"mepc"})
            /\ KeepsAllBut("shared_memory", {})]_vars

\* An MmioLoadRequest was declassified to a hypervisor hart whose registers held
\* something else than what was written.
DeclassificationFrameWitness ==
    /\ event.op = "MmioLoadRequest::handle"
    /\ event.arg = "MmioLoadRequest"
    /\ hypervisor_hart.gprs.a2 # hypervisor_hart.gprs.a1
    /\ hypervisor_hart.csrs.sepc # hypervisor_hart.csrs.scause
    /\ hypervisor_hart.shared_memory.vsstatus # hypervisor_hart.shared_memory.htinst

\* C5 (declassification non-interference): the run from the confidential hart and the
\* run from its twin, which agrees with it on mcause, mtval, mtval2 and mtinst only,
\* leave the same hypervisor GPRs, CSRs and NACL shared memory and exit to the same side.
DeclassificationNonInterference ==
    /\ hypervisor_hart = twin.hypervisor_hart
    /\ exit_to = twin.exit_to

\* Both runs declassified an MmioLoadRequest from harts that differ in mepc and a0.
DeclassificationNonInterferenceWitness ==
    /\ exit_to = "hypervisor"
    /\ twin.transformation = "MmioLoadRequest"
    /\ confidential_hart.csrs.mepc # twin.confidential_hart.csrs.mepc
    /\ confidential_hart.gprs.a0 # twin.confidential_hart.gprs.a0
    /\ confidential_hart.csrs.mtval # confidential_hart.csrs.mepc

\* ================================================ confidential VM lifecycle
\* The hypervisor promotes a VM: the boot hart is started, the others are stopped.
CreateConfidentialVm(id, number_of_harts) ==
    /\ ~cvms[id].registered
    /\ cvms' = [cvms EXCEPT ![id] = ConfidentialVm(number_of_harts)]
    /\ last_shutdown' = [last_shutdown EXCEPT ![id] = 0]
    /\ event' = Event("CreateConfidentialVm", id)
    /\ UNCHANGED <<layoutVars, allocVars, panicked, pmpVars, trapVars, lockVars, archVars, mmuVars, clintVars,
                   declVars,
                   pending_shutdown, destroy_ret>>

\* A started hart starts one that is stopped.
StartConfidentialHart(id, hart) ==
    /\ cvms[id].registered
    /\ cvms[id].harts[hart] = "Stopped"
    /\ \E other \in HartIds : cvms[id].harts[other] = "Started"
    /\ cvms' = [cvms EXCEPT ![id].harts[hart] = "Started"]
    /\ event' = Event("StartConfidentialHart", id)
    /\ UNCHANGED <<layoutVars, allocVars, panicked, pmpVars, trapVars, lockVars, archVars, mmuVars, clintVars,
                   declVars,
                   pending_shutdown, destroy_ret, last_shutdown>>

\* shutdown_confidential_hart up to into_non_confidential_flow: the hart is Shutdown.
ShutdownConfidentialHart(id, hart) ==
    /\ cvms[id].registered
    /\ cvms[id].harts[hart] = "Started"
    /\ <<id, hart>> \notin pending_shutdown
    /\ cvms' = ConfidentialFlow_shutdown_confidential_hart(cvms, id, hart)
    /\ pending_shutdown' = pending_shutdown \cup {<<id, hart>>}
    /\ last_shutdown' = [last_shutdown EXCEPT ![id] = hart]
    /\ event' = Event("shutdown_confidential_hart", id)
    /\ UNCHANGED <<layoutVars, allocVars, panicked, pmpVars, trapVars, lockVars, archVars, mmuVars, clintVars,
                   declVars, destroy_ret>>

\* The rest of shutdown_confidential_hart, on the physical hart that ran the first
\* part: the removal is tried and its result dropped, the SRST request is declassified.
ShutdownRemoveConfidentialVm(id, hart) ==
    /\ <<id, hart>> \in pending_shutdown
    /\ cvms' = shutdown_confidential_hart_exit(cvms, id, hypervisor_hart).storage
    /\ hypervisor_hart' =
           shutdown_confidential_hart_exit(cvms, id, hypervisor_hart).hypervisor_hart
    /\ flow_calls' = shutdown_confidential_hart_exit(cvms, id, hypervisor_hart).calls
    /\ exit_to' = "hypervisor"
    /\ pending_shutdown' = pending_shutdown \ {<<id, hart>>}
    /\ event' = Event("remove_confidential_vm", id)
    /\ UNCHANGED <<layoutVars, allocVars, panicked, pmpVars, trapVars, lockVars, archVars, mmuVars, clintVars,
                   confidential_hart, twin, destroy_ret, last_shutdown>>

\* The hypervisor calls DestroyConfidentialVm with the VM's id in a0.
DestroyConfidentialVm(id) ==
    /\ cvms' = DestroyConfidentialVm_handle(cvms, id).storage
    /\ destroy_ret' = DestroyConfidentialVm_handle(cvms, id).response
    /\ event' = Event("DestroyConfidentialVm", id)
    /\ UNCHANGED <<layoutVars, allocVars, panicked, pmpVars, trapVars, lockVars, archVars, mmuVars, clintVars,
                   declVars,
                   pending_shutdown, last_shutdown>>

NextCvm ==
    \/ \E id \in VmIds, number_of_harts \in HartIds :
           CreateConfidentialVm(id, number_of_harts)
    \/ \E id \in VmIds, hart \in HartIds : StartConfidentialHart(id, hart)
    \/ \E id \in VmIds, hart \in HartIds : ShutdownConfidentialHart(id, hart)
    \/ \E id \in VmIds, hart \in HartIds : ShutdownRemoveConfidentialVm(id, hart)
    \/ \E id \in VmIds : DestroyConfidentialVm(id)

SpecCvm == InitAlloc /\ [][NextCvm]_vars

\* Every hart the VM has is in the lifecycle state Shutdown.
EveryHartShutdown(id) ==
    /\ cvms[id].registered
    /\ \A h \in HartIds : cvms[id].harts[h] \in {"None", "Shutdown"}

OffsetBootLayoutInit ==
    /\ init_calls = 0
    /\ \E nce \in 2 .. 4, cs \in 4 .. 6, ce \in 9 .. 11 : LayoutInit(0, nce, cs, ce)

\* One call is looked at in a behaviour: a call changes nothing a later call reads.
OffsetReturn(op, ret, address, offset_in_bytes, upper_bound) ==
    /\ layout.set
    /\ offset_ret = NoOffsetRet
    /\ offset_ret' = ret
    /\ event' = Event(op, <<address, offset_in_bytes, upper_bound>>)
    /\ UNCHANGED <<layout, init_ret, init_calls, allocVars, panicked, pmpVars, trapVars, lockVars, archVars, mmuVars, clintVars,
                   declVars, cvmVars>>

\* The address is one a ConfidentialMemoryAddress can hold: inside the window.
ConfidentialAddressAtOffset(address, offset_in_bytes) ==
    /\ address >= layout.confidential_memory_start
    /\ address < layout.confidential_memory_end
    /\ OffsetReturn("confidential_address_at_offset",
                    confidential_address_at_offset(layout, address, offset_in_bytes),
                    address, offset_in_bytes, 0)

\* The upper bound is the end of a region the address lies in.
ConfidentialAddressAtOffsetBounded(address, offset_in_bytes, upper_bound) ==
    /\ address >= layout.confidential_memory_start
    /\ address < layout.confidential_memory_end
    /\ address < upper_bound
    /\ OffsetReturn("confidential_address_at_offset_bounded",
                    confidential_address_at_offset_bounded(
                        layout, address, offset_in_bytes, upper_bound),
                    address, offset_in_bytes, upper_bound)

NonConfidentialAddressAtOffset(address, offset_in_bytes) ==
    /\ address >= layout.non_confidential_memory_start
    /\ address < layout.non_confidential_memory_end
    /\ OffsetReturn("non_confidential_address_at_offset",
                    non_confidential_address_at_offset(layout, address, offset_in_bytes),
                    address, offset_in_bytes, 0)

Addresses == 0 .. AddressSpaceBytes - 1

NextOffsets ==
    \/ OffsetBootLayoutInit
    \/ \E address \in Addresses, offset_in_bytes \in Addresses :
           ConfidentialAddressAtOffset(address, offset_in_bytes)
    \/ \E address \in Addresses, offset_in_bytes \in Addresses :
           NonConfidentialAddressAtOffset(address, offset_in_bytes)
    \/ \E address \in Addresses, offset_in_bytes \in Addresses, upper_bound \in Addresses :
           ConfidentialAddressAtOffsetBounded(address, offset_in_bytes, upper_bound)

SpecOffsets == InitAlloc /\ [][NextOffsets]_vars

\* The call returned address + offset, an address of the window [start, end) that a
\* word holds, or it returned the error.
OffsetWithin(start, end, error) ==
    IF offset_ret.ok
    THEN /\ offset_ret.value = event.arg[1] + event.arg[2]
         /\ offset_ret.value >= start
         /\ offset_ret.value < end
         /\ offset_ret.value < AddressSpaceBytes
    ELSE offset_ret.error = error

\* C12 (offsets stay in the window): confidential_address_at_offset and
\* non_confidential_address_at_offset return address + offset inside the window of the
\* address, or fail with AddressNotInConfidentialMemory and
\* AddressNotInNonConfidentialMemory; no returned address is wrapped around or outside
\* the window, also when address + offset overflows the word.
OffsetsStayInWindow ==
    /\ event.op = "confidential_address_at_offset" =>
           OffsetWithin(layout.confidential_memory_start, layout.confidential_memory_end,
                        "AddressNotInConfidentialMemory")
    /\ event.op = "non_confidential_address_at_offset" =>
           OffsetWithin(layout.non_confidential_memory_start,
                        layout.non_confidential_memory_end,
                        "AddressNotInNonConfidentialMemory")

\* An offset that overflows the word was refused after one inside the window was
\* possible: the window has more than one byte.
OffsetsStayInWindowWitness ==
    /\ event.op = "confidential_address_at_offset"
    /\ event.arg[1] + event.arg[2] >= AddressSpaceBytes
    /\ event.arg[1] + 1 < layout.confidential_memory_end
    /\ ~offset_ret.ok

\* C13 (bounded offset): confidential_address_at_offset_bounded returns Ok only for
\* an address address + offset that lies inside the confidential memory and does not
\* exceed upper_bound.
OffsetBounded ==
    (event.op = "confidential_address_at_offset_bounded" /\ offset_ret.ok) =>
        /\ offset_ret.value = event.arg[1] + event.arg[2]
        /\ offset_ret.value < layout.confidential_memory_end
        /\ offset_ret.value <= event.arg[3]

\* ============================================== calls of the confidential hart
\* What try_confidential_vm_mut and broadcast_remote_command may answer.
CallResults == {"Ok", "InvalidParameter", "Failed"}

\* A handler of the confidential flow ran on the hart; error is the error the request
\* of the hart raised, "none" if it raised none.
ConfidentialCall(op, r, error) ==
    /\ ~panicked
    /\ flow = "Confidential"
    /\ exit_to = "none"
    /\ ExitFlowResult(r)
    /\ event' = Event(op, <<r.transformation, error>>)
    /\ UNCHANGED <<layoutVars, allocVars, trapVars, lockVars, archVars, clintVars, cvmVars, mctx_pmp, twin>>

InvalidCallTrap ==
    /\ ConfidentialCall("InvalidCall::handle",
           InvalidCall_handle(InvalidCall_from_confidential_hart(confidential_hart),
                              confidential_hart, hypervisor_hart),
           "InvalidCall")
    /\ UNCHANGED <<mmuVars, clintVars>>

\* The memory protector unmaps only what is mapped.
UnsharePageTrap(unmapped, broadcast) ==
    LET self == UnsharePageRequest_from_confidential_hart(confidential_hart)
        r == unmap_shared_page(self, VmMemory(shared_pages, remote_commands),
                               unmapped, broadcast)
    IN  /\ unmapped = "Ok" => self.address \in shared_pages
        /\ ConfidentialCall("UnsharePageRequest::handle",
               UnsharePageRequest_handle(self, confidential_hart, hypervisor_hart,
                                         r.result),
               IF r.result = "Ok" THEN "none" ELSE r.result)
        /\ shared_pages' = r.vm.shared_pages
        /\ remote_commands' = r.vm.remote_commands
        /\ UNCHANGED shared_page_ret

RemoteFenceITrap(broadcast) ==
    /\ ConfidentialCall("RemoteFenceI::handle",
           RemoteFenceI_handle(confidential_hart, hypervisor_hart, broadcast),
           IF broadcast = "Ok" THEN "none" ELSE broadcast)
    /\ remote_commands' =
           broadcast_remote_command(VmMemory(shared_pages, remote_commands),
                                    <<"RemoteFenceI">>, broadcast).vm.remote_commands
    /\ UNCHANGED <<shared_pages, shared_page_ret>>

\* The confidential hart that traps: its trap CSRs and the registers of its call.
InitConfidentialFlow ==
    /\ \E pages \in SUBSET {a \in 0 .. MaxVal : a % in_bytes(0) = 0} : InitMemWith(pages)
    /\ InitPmp({})
    /\ InitTrap(NoMaxExit)
    /\ InitCvm
    /\ \E mtval \in 0 .. MaxVal, mtval2 \in 0 .. MaxVal + 1, mtinst \in MtinstValues,
          mepc \in 0 .. MaxVal, a0 \in 0 .. MaxVal, a1 \in 0 .. MaxVal + 1,
          a6 \in 0 .. MaxVal, a7 \in 0 .. MaxVal :
           /\ confidential_hart =
                  [ConfidentialHart(TrapCsrs(CAUSE_LOAD_ACCESS, mtval, mtval2, mtinst),
                                    mepc, a0)
                       EXCEPT !.gprs.a1 = a1, !.gprs.a6 = a6, !.gprs.a7 = a7]
           /\ hypervisor_hart = FilledHypervisorHart(MaxVal + 2)
           /\ exit_to = "none"
           /\ twin = FlowExit(ConfidentialHart(TrapCsrs(CAUSE_LOAD_ACCESS, mtval, mtval2,
                                                        mtinst), mepc, a0),
                              FilledHypervisorHart(MaxVal + 2), "none", "none", <<>>)
           /\ flow_calls = <<>>

NextConfidentialFlow ==
    \/ BootWholeLayoutInit
    \/ PolicyInitSplit
    \/ BootWritePmp
    \/ EnterConfidentialFlow
    \/ MmioLoadTrap
    \/ InvalidCallTrap
    \/ \E unmapped \in CallResults, broadcast \in CallResults :
           UnsharePageTrap(unmapped, broadcast)
    \/ \E broadcast \in CallResults : RemoteFenceITrap(broadcast)

SpecConfidentialFlow == InitConfidentialFlow /\ [][NextConfidentialFlow]_vars

\* ---------------------------------------------------------------- properties
\* C23 (invalid SBI call): whatever a7 and a6 hold, InvalidCall::handle resumes the
\* confidential hart with a0 = -2 (NotSupported), a1 = 0 and mepc advanced by 4; no
\* other GPR or CSR of the confidential hart changes, no operation is left pending,
\* the hart stays in the confidential flow with the window open, and the hypervisor
\* hart is not modified.
InvalidCallResponse ==
    [][event'.op = "InvalidCall::handle" =>
          /\ confidential_hart'.gprs =
                 [confidential_hart.gprs EXCEPT !.a0 = -2, !.a1 = 0]
          /\ confidential_hart'.csrs =
                 [confidential_hart.csrs EXCEPT !.mepc = confidential_hart.csrs.mepc + 4]
          /\ confidential_hart'.resumable_operation = confidential_hart.resumable_operation
          /\ exit_to' = "confidential_hart"
          /\ flow' = "Confidential"
          /\ hw_pmp' = hw_pmp
          /\ ~Called(flow_calls', "into_non_confidential_flow")
          /\ hypervisor_hart' = hypervisor_hart]_vars

InvalidCallResponseWitness ==
    /\ event.op = "InvalidCall::handle"
    /\ confidential_hart.gprs.a7 = MaxVal
    /\ confidential_hart.gprs.a6 = MaxVal
    /\ confidential_hart.gprs.a0 = -2
    /\ confidential_hart.csrs.mepc = MaxVal + 4
    /\ exit_to = "confidential_hart"

\* The address MmioLoadRequest::handle composes from the trap CSRs of the hart.
FaultAddress(ch) == (ch.csrs.mtval2 * 4) + (ch.csrs.mtval % 4)

\* An MMIO load of a full instruction traps at an address outside every declared
\* region, and the handler runs.
MmioLoadOutsideRegion ==
    /\ event'.op = "MmioLoadRequest::handle"
    /\ confidential_hart.csrs.mtinst % 2 = 1
    /\ FaultAddress(confidential_hart) \notin MmioRegion

\* What an MMIO load outside the declared regions leaves apart from stval: cause 5 in
\* scause, the hart resumed with no pending operation and its GPRs, the flow still
\* confidential and the hypervisor hart untouched.
MmioFaultInjected ==
    /\ event'.arg = "MmioAccessFault"
    /\ confidential_hart'.csrs.scause = 5
    /\ \A r \in DOMAIN confidential_hart.csrs \ {"scause", "stval", "sepc"} :
           confidential_hart'.csrs[r] = confidential_hart.csrs[r]
    /\ confidential_hart'.gprs = confidential_hart.gprs
    /\ confidential_hart'.resumable_operation = <<>>
    /\ exit_to' = "confidential_hart"
    /\ flow' = "Confidential"
    /\ ~Called(flow_calls', "set_resumable_operation")
    /\ ~Called(flow_calls', "into_non_confidential_flow")
    /\ hypervisor_hart' = hypervisor_hart

\* C24 as stated (MMIO load outside a declared region): the fault injected into the
\* confidential hart reports cause 5 and the composed fault address
\* (mtval2 << 2) | (mtval & 3) as stval; the hart is resumed, no ResumableOperation is
\* recorded, the non-confidential flow is never entered and the hypervisor hart is
\* unchanged.
MmioFaultReportsFaultAddress ==
    [][MmioLoadOutsideRegion =>
          /\ MmioFaultInjected
          /\ confidential_hart'.csrs.stval = FaultAddress(confidential_hart)]_vars

\* C24 (MMIO load outside a declared region, as the code has it): the fault injected
\* into the confidential hart reports cause 5 and the value of mtval as stval; the hart
\* is resumed, no ResumableOperation is recorded, the non-confidential flow is never
\* entered and the hypervisor hart is unchanged.
MmioFaultReportsMtval ==
    [][MmioLoadOutsideRegion =>
          /\ MmioFaultInjected
          /\ confidential_hart'.csrs.stval = confidential_hart.csrs.mtval]_vars

MmioFaultReportsMtvalWitness ==
    /\ event = Event("MmioLoadRequest::handle", "MmioAccessFault")
    /\ confidential_hart.csrs.mtval2 = MaxVal + 1
    /\ confidential_hart.csrs.mtval = MaxVal
    /\ confidential_hart.csrs.stval = MaxVal
    /\ confidential_hart.csrs.scause = 5
    /\ exit_to = "confidential_hart"

\* The pending load of the instruction in mtinst: its length and its rd field.
PendingLoad(mtinst) ==
    <<"MmioLoad",
      IF (mtinst \div 2) % 2 = 1 THEN 4 ELSE 2,
      (mtinst \div 128) % 32>>

\* C25 (MMIO load into a declared region): ResumableOperation::MmioLoad with the length
\* and the rd of the instruction in mtinst is recorded on the confidential hart before
\* the flow becomes non-confidential and before the MmioLoadRequest is declassified, so
\* whenever the hypervisor observes an MMIO load request the requesting hart holds
\* exactly that pending operation.
MmioLoadPendingBeforeExit ==
    /\ [][event'.op = "MmioLoadRequest::handle" /\ event'.arg = "MmioLoadRequest" =>
             /\ FaultAddress(confidential_hart) \in MmioRegion
             /\ confidential_hart'.resumable_operation =
                    PendingLoad(confidential_hart.csrs.mtinst)
             /\ CalledBefore(flow_calls', "set_resumable_operation",
                             "into_non_confidential_flow")
             /\ CalledBefore(flow_calls', "set_resumable_operation",
                             "declassify_and_exit_to_hypervisor")]_vars
    /\ [](event = Event("MmioLoadRequest::handle", "MmioLoadRequest") =>
             /\ exit_to = "hypervisor"
             /\ flow = "NonConfidential"
             /\ hypervisor_hart.csrs.stval = confidential_hart.csrs.mtval
             /\ confidential_hart.resumable_operation =
                    PendingLoad(confidential_hart.csrs.mtinst))

MmioLoadPendingBeforeExitWitness ==
    /\ event = Event("MmioLoadRequest::handle", "MmioLoadRequest")
    /\ exit_to = "hypervisor"
    /\ confidential_hart.csrs.mtinst = 643
    /\ confidential_hart.resumable_operation = <<"MmioLoad", 4, 5>>
    /\ flow_calls[1] = "set_resumable_operation"

\* The SRST SYSTEM_RESET request with arguments 0, 0 is in the hypervisor hart.
SystemResetDeclassified(hh) ==
    /\ hh.gprs.a7 = 1397904212
    /\ hh.gprs.a6 = 0
    /\ hh.gprs.a0 = 0
    /\ hh.gprs.a1 = 0

ExitCalls ==
    {"apply_and_exit_to_confidential_hart", "apply_and_exit_to_hypervisor",
     "declassify_and_exit_to_hypervisor", "declassify_and_exit_to_confidential_hart"}

HandlerOps ==
    {"MmioLoadRequest::handle", "InvalidCall::handle", "UnsharePageRequest::handle",
     "RemoteFenceI::handle"}

Exits(calls) == {i \in DOMAIN calls : calls[i] \in ExitCalls}

GuestFaultsStayWithGuest ==
    [][/\ event'.op \in HandlerOps \ {"MmioLoadRequest::handle"} /\ event'.arg[2] # "none" =>
             /\ exit_to' = "confidential_hart"
             /\ flow' = "Confidential"
             /\ confidential_hart'.gprs.a0 < 0
             /\ hypervisor_hart' = hypervisor_hart
       /\ MmioLoadOutsideRegion =>
             /\ exit_to' = "confidential_hart"
             /\ confidential_hart'.csrs.scause = CAUSE_LOAD_ACCESS
             /\ hypervisor_hart' = hypervisor_hart
       /\ ( /\ event'.op = "MmioLoadRequest::handle"
            /\ confidential_hart.csrs.mtinst % 2 = 1
            /\ FaultAddress(confidential_hart) \in MmioRegion
            /\ confidential_hart.csrs.mtinst % 128 \notin {1, 3} ) =>
             /\ exit_to' = "confidential_hart"
             /\ flow' = "Confidential"
             /\ hypervisor_hart' = hypervisor_hart]_vars

\* ======================================== harts calling the page allocator
\* Calls the harts make in one behaviour.
MaxCalls == 3

\* try_write up to the guard: the hart has called acquire_page or release_pages and
\* RwLock::write returned the write guard.
HartWrite(h, call, tokens_left) ==
    /\ ~panicked
    /\ allocator.set
    /\ harts[h].pc = "idle"
    /\ Len(history) + Cardinality({k \in HartIds : harts[k].pc = "locked"}) < MaxCalls
    /\ RwLock_write(lock, h).acquired
    /\ lock' = RwLock_write(lock, h).lock
    /\ harts' = [harts EXCEPT ![h] = [pc |-> "locked", call |-> call, guard |-> allocator,
                                      held |-> tokens_left]]
    /\ event' = Event("RwLock::write", h)
    /\ UNCHANGED <<layoutVars, allocVars, panicked, pmpVars, trapVars, declVars, cvmVars,
                   history, archVars, mmuVars, clintVars>>

HartAcquirePage(h, page_size_to_allocate) ==
    HartWrite(h, [op |-> "acquire_page", arg |-> page_size_to_allocate], harts[h].held)

\* The hart gives the tokens at the chosen positions of what it owns to release_pages.
HartReleasePages(h, chosen) ==
    /\ chosen # {}
    /\ Cardinality(chosen) <= MaxReleaseLen
    /\ HartWrite(h, [op |-> "release_pages", arg |-> Pick(harts[h].held, chosen, 1)],
                 Pick(harts[h].held, DOMAIN harts[h].held \ chosen, 1))

\* The closure of try_write runs on the allocator behind the guard, the guard is
\* dropped and the call returns.
HartReturnResult(h, st) ==
    /\ allocator' = [harts[h].guard EXCEPT !.nodes = st.nodes]
    /\ panicked' = st.panic
    /\ lock' = RwLockWriteGuard_drop(lock, h)
    /\ harts' = [harts EXCEPT ![h] =
                     IdleHart(IF /\ harts[h].call.op = "acquire_page"
                                 /\ ~st.panic /\ st.ret # OutOfPages /\ st.ret # NoToken
                              THEN Append(harts[h].held, st.ret) ELSE harts[h].held)]
    /\ history' = Append(history, [hart |-> h, call |-> harts[h].call, ret |-> st.ret])
    /\ event' = Event("try_write", <<h, harts[h].call.op>>)

HartReturn(h) ==
    /\ harts[h].pc = "locked"
    /\ HartReturnResult(h, try_write(harts[h].guard, harts[h].call))
    /\ UNCHANGED <<layoutVars, held, acquire_ret, pmpVars, trapVars, declVars, cvmVars,
                   archVars, mmuVars, clintVars>>

NextAllocLock ==
    \/ BootWholeLayoutInit
    \/ AllocatorInitialize
    \/ \E h \in HartIds, size \in PageSizes : HartAcquirePage(h, size)
    \/ \E h \in HartIds : \E chosen \in SUBSET DOMAIN harts[h].held :
           HartReleasePages(h, chosen)
    \/ \E h \in HartIds : HartReturn(h)

SpecAllocLock == InitAlloc /\ [][NextAllocLock]_vars

\* The tokens a hart owns: those it holds and those it has handed to a release_pages
\* that has not returned.
OwnedTokens(h) ==
    harts[h].held \o (IF harts[h].pc = "locked" /\ harts[h].call.op = "release_pages"
                      THEN harts[h].call.arg ELSE <<>>)

OwnedBytes ==
    UNION {UNION {TokenBytes(OwnedTokens(h)[i]) : i \in DOMAIN OwnedTokens(h)} :
           h \in HartIds}

\* C29 (allocator under concurrency): acquire_page and release_pages of several harts
\* run one at a time under the write lock; in every interleaving the tokens the harts
\* own never overlap each other or a free token, no released token is lost (free and
\* owned bytes together are what PageAllocator::initialize made free), and whenever no
\* call is in progress the allocator and every returned value are those of the calls
\* run sequentially in the order they took the lock.
AllocatorSerialised ==
    /\ Cardinality(lock) <= 1
    /\ \A h \in HartIds : harts[h].pc = "locked" => lock = {h} /\ harts[h].guard = allocator
    /\ \A h1, h2 \in HartIds :
           \A i1 \in DOMAIN OwnedTokens(h1), i2 \in DOMAIN OwnedTokens(h2) :
               <<h1, i1>> # <<h2, i2>> =>
                   TokenBytes(OwnedTokens(h1)[i1]) \cap TokenBytes(OwnedTokens(h2)[i2]) = {}
    /\ (allocator.set /\ lock = {} /\ ~panicked) =>
           /\ FreeBytes \cap OwnedBytes = {}
           /\ FreeBytes \cup OwnedBytes = UNION {TokenBytes(t) : t \in InitialFreeTokens}
           /\ SequentialRun(
                  PageAllocator_initialize(NoAllocator, layout, init_ret.start,
                                           init_ret.end).cell,
                  history, 1, allocator)

\* Both harts acquired a page and one of them has given its page back.
AllocatorSerialisedWitness ==
    /\ Len(history) = 3
    /\ lock = {}
    /\ \E i, j, k \in 1 .. 3 :
           /\ history[i].hart # history[j].hart
           /\ history[i].call.op = "acquire_page" /\ history[i].ret.size = 0
           /\ history[j].call.op = "acquire_page" /\ history[j].ret.size = 0
           /\ history[k].call.op = "release_pages"

\* ================================================================ HostArch
\* The CSRs read and written, one of them not implemented by the mock, and the values
\* written: bit 1 lies inside the S-mode filters, bit 3 outside.
Csrs == {"Mhartid", "Mstatus", "Mie", "Mip", "Marchid", "Mtval2", "Sstatus", "Sie", "Sip",
         "Hgeip"}
CsrValues == SUBSET {1, 3}

ReadCsr(csr) ==
    /\ ~panicked
    /\ csr_ret' = read_csr(host_ctx, csr).value
    /\ panicked' = read_csr(host_ctx, csr).panic
    /\ event' = Event("read_csr", <<csr, {}>>)
    /\ UNCHANGED <<layoutVars, allocVars, pmpVars, trapVars, declVars, cvmVars, lockVars,
                   mmuVars, clintVars, host_ctx>>

WriteCsr(csr, value) ==
    /\ ~panicked
    /\ host_ctx' = write_csr(host_ctx, csr, value).ctx
    /\ csr_ret' = write_csr(host_ctx, csr, value).value
    /\ panicked' = write_csr(host_ctx, csr, value).panic
    /\ event' = Event("write_csr", <<csr, value>>)
    /\ UNCHANGED <<layoutVars, allocVars, pmpVars, trapVars, declVars, cvmVars, lockVars,
                   mmuVars, clintVars>>

NextHostArch ==
    \/ \E csr \in Csrs : ReadCsr(csr)
    \/ \E csr \in Csrs, value \in CsrValues : WriteCsr(csr, value)

SpecHostArch == InitAlloc /\ [][NextHostArch]_vars

\* The bits of a CSR a write can set: those of the filter for an S-mode view, none for
\* the read-only hgeip, all for the others.
LegalMask(csr) ==
    CASE csr = "Sstatus" -> mstatus_SSTATUS_FILTER
      [] csr \in {"Sie", "Sip"} -> mie_SIE_FILTER
      [] csr = "Hgeip" -> {}
      [] OTHER -> 0 .. 63

\* The field of HOST_CTX.csr behind an S-mode view.
Underlying(csr) ==
    CASE csr = "Sstatus" -> "mstatus"
      [] csr = "Sie" -> "mie"
      [] csr = "Sip" -> "mip"

\* C30 (CSR round trip): for every CSR c the mock implements and every value v,
\* write_csr(c, v) returns the previous value of c, a read_csr(c) after it returns v
\* restricted to the legal mask of c, and a write to Sstatus, Sie or Sip leaves the bits
\* of mstatus, mie or mip outside the mask of the view as they were.
CsrRoundTrip ==
    [][event'.op = "write_csr" /\ ~panicked' =>
          /\ csr_ret' = read_csr(host_ctx, event'.arg[1]).value
          /\ read_csr(host_ctx', event'.arg[1]).value
                 = event'.arg[2] \cap LegalMask(event'.arg[1])
          /\ event'.arg[1] \in {"Sstatus", "Sie", "Sip"} =>
                 host_ctx'[Underlying(event'.arg[1])] \ LegalMask(event'.arg[1])
                     = host_ctx[Underlying(event'.arg[1])] \ LegalMask(event'.arg[1])]_vars

\* ======================================================== MMIO instruction length
\* C31 (MMIO instruction length): the handler of a load access fault uses length 2 if
\* bit 0 of mtinst is 0 and otherwise instruction_length(mtinst | 0x3), and an mtinst
\* with bit 0 clear is handled without a panic of the monitor.
MmioInstructionLength ==
    [][event'.op = "MmioLoadRequest::handle" =>
          /\ ~panicked'
          /\ event'.arg = "MmioLoadRequest" =>
                 confidential_hart'.resumable_operation[2] =
                     IF confidential_hart.csrs.mtinst % 2 = 0
                     THEN 2
                     ELSE instruction_length(
                              (confidential_hart.csrs.mtinst
                                   - (confidential_hart.csrs.mtinst % 4)) + 3)]_vars

\* ======================================================== UNSHARE_MEMORY
\* The handler answered the confidential hart with an SBI error.
UnshareAnsweredError ==
    /\ event'.op = "UnsharePageRequest::handle"
    /\ exit_to' = "confidential_hart"

\* The handler declassified the UNSHARE_MEMORY request to the hypervisor.
UnshareDeclassified ==
    /\ event'.op = "UnsharePageRequest::handle"
    /\ exit_to' = "hypervisor"

\* C32 (UNSHARE_MEMORY is all-or-nothing): when the handler answers the confidential
\* hart with an SBI error (AddressNotAligned, InvalidParameter, a failed unmapping or a
\* failed broadcast of the remote fence) the second-stage mapping of the CVM is unchanged
\* and nothing is declassified; when it declassifies the UNSHARE_MEMORY SbiRequest the
\* page was unmapped, RemoteHfenceGvmaVmid was broadcast to all harts and
\* ResumableOperation::SbiRequest is recorded.
UnshareAllOrNothing ==
    [][/\ UnshareAnsweredError =>
            /\ confidential_hart'.gprs.a0 = sbi_error_code(event'.arg[2])
            /\ (confidential_hart.gprs.a0 % in_bytes(0) # 0) =>
                   event'.arg[2] = "AddressNotAligned"
            /\ (confidential_hart.gprs.a0 % in_bytes(0) = 0
                    /\ confidential_hart.gprs.a1 # in_bytes(0)) =>
                   event'.arg[2] = "InvalidParameter"
            /\ shared_pages' = shared_pages
            /\ hypervisor_hart' = hypervisor_hart
            /\ ~Called(flow_calls', "declassify_and_exit_to_hypervisor")
       /\ UnshareDeclassified =>
            /\ confidential_hart.gprs.a0 \in shared_pages
            /\ shared_pages' = shared_pages \ {confidential_hart.gprs.a0}
            /\ remote_commands' =
                   Append(remote_commands,
                          <<"RemoteHfenceGvmaVmid", confidential_hart.gprs.a0,
                            in_bytes(0), "all_harts">>)
            /\ confidential_hart'.resumable_operation = <<"SbiRequest">>
            /\ hypervisor_hart'.gprs.a7 = CovgExtension_EXTID
            /\ hypervisor_hart'.gprs.a6 = SBI_EXT_COVG_UNSHARE_MEMORY]_vars

\* ============================================== memory shared with the hypervisor
\* The windows the platform reports: non-confidential memory from 0 or 1, confidential
\* memory at or above its end.
SharedBootLayoutInit ==
    /\ init_calls = 0
    /\ \E ncs \in 0 .. 1, nce \in 3 .. 4, cs \in 4 .. 5, ce \in 9 .. 10 :
           LayoutInit(ncs, nce, cs, ce)

\* The hypervisor calls SETUP_SHARED_MEMORY with a0: from_hypervisor_hart, handle and
\* apply_to_hypervisor_hart run, and the hypervisor is resumed.
NaclSetupSharedMemoryCall(a0, set) ==
    /\ ~panicked
    /\ layout.set
    /\ hypervisor_hart.csrs.mepc < MaxCalls * ECALL_INSTRUCTION_LENGTH
    /\ LET hh == [hypervisor_hart EXCEPT !.gprs.a0 = a0]
       IN  hypervisor_hart' =
               NaclSetupSharedMemory_apply_to_hypervisor_hart(
                   NaclSetupSharedMemory_from_hypervisor_hart(hh), layout, hh, set)
    /\ exit_to' = "hypervisor"
    /\ flow_calls' = <<"apply_and_exit_to_hypervisor">>
    /\ event' = Event("NaclSetupSharedMemory::handle", <<a0, set>>)
    /\ UNCHANGED <<layoutVars, allocVars, panicked, pmpVars, trapVars, lockVars, archVars,
                   mmuVars, clintVars, cvmVars, confidential_hart, twin>>

\* SharedPage::new on a NonConfidentialMemoryAddress: an address of the non-confidential
\* memory. One call is looked at in a behaviour.
SharedPageNew(hypervisor_address, confidential_vm_address) ==
    /\ ~panicked
    /\ layout.set
    /\ shared_page_ret = NoSharedPageRet
    /\ is_in_non_confidential_range(layout, hypervisor_address)
    /\ shared_page_ret' = SharedPage_new(layout, hypervisor_address,
                                         confidential_vm_address)
    /\ event' = Event("SharedPage::new", <<hypervisor_address, confidential_vm_address>>)
    /\ UNCHANGED <<layoutVars, allocVars, panicked, pmpVars, trapVars, lockVars, archVars,
                   shared_pages, remote_commands, clintVars, cvmVars, declVars>>

InitSharedMemory ==
    /\ InitMem
    /\ InitPmp({})
    /\ InitTrap(NoMaxExit)
    /\ InitCvm
    /\ confidential_hart = ConfidentialHart(TrapCsrs(0, 0, 0, 0), 0, 0)
    /\ hypervisor_hart = [FilledHypervisorHart(0)
                              EXCEPT !.shared_memory.base_address = NoSharedMemory]
    /\ exit_to = "none"
    /\ twin = FlowExit(confidential_hart, hypervisor_hart, "none", "none", <<>>)
    /\ flow_calls = <<>>

\* Addresses the hypervisor passes: below, inside and above the non-confidential memory,
\* the last ones inside the confidential memory.
NaclBaseAddresses == 0 .. 5

NextSharedMemory ==
    \/ SharedBootLayoutInit
    \/ \E a0 \in NaclBaseAddresses, set \in CallResults : NaclSetupSharedMemoryCall(a0, set)
    \/ \E hypervisor_address \in Addresses, confidential_vm_address \in 0 .. MaxVal :
           SharedPageNew(hypervisor_address, confidential_vm_address)

SpecSharedMemory == InitSharedMemory /\ [][NextSharedMemory]_vars

\* The bytes of the confidential memory.
ConfidentialBytes ==
    IF layout.set THEN layout.confidential_memory_start .. layout.confidential_memory_end - 1
    ELSE {}

\* C33 (NACL shared-memory setup): the NACL shared-memory window of the hypervisor hart
\* is set to the address in a0 only if that address is one of the non-confidential
\* memory; otherwise the window registered before is unchanged and the hypervisor
\* receives an SBI error. In both cases a0 and a1 hold the response and mepc is advanced
\* by 4, and the window never points into the confidential memory.
NaclWindowValidated ==
    /\ [][event'.op = "NaclSetupSharedMemory::handle" =>
            /\ hypervisor_hart'.shared_memory.base_address
                   # hypervisor_hart.shared_memory.base_address =>
                   /\ is_in_non_confidential_range(layout, event'.arg[1])
                   /\ hypervisor_hart'.shared_memory.base_address = event'.arg[1]
            /\ ~is_in_non_confidential_range(layout, event'.arg[1]) =>
                   /\ hypervisor_hart'.shared_memory.base_address
                          = hypervisor_hart.shared_memory.base_address
                   /\ hypervisor_hart'.gprs.a0
                          = sbi_error_code("AddressNotInNonConfidentialMemory")
            /\ hypervisor_hart'.gprs.a0 = SBI_SUCCESS =>
                   hypervisor_hart'.shared_memory.base_address = event'.arg[1]
            /\ hypervisor_hart'.gprs.a0 \in {SBI_SUCCESS} \cup { sbi_error_code(e) :
                   e \in CallResults \cup {"AddressNotInNonConfidentialMemory"} }
            /\ hypervisor_hart'.gprs.a1 = 0
            /\ hypervisor_hart'.csrs.mepc
                   = hypervisor_hart.csrs.mepc + ECALL_INSTRUCTION_LENGTH
            /\ exit_to' = "hypervisor"]_vars
    /\ [](hypervisor_hart.shared_memory.base_address \notin ConfidentialBytes)

\* A call with an address outside the non-confidential memory was refused after a window
\* had been registered, and the window stayed.
NaclWindowValidatedWitness ==
    /\ event.op = "NaclSetupSharedMemory::handle"
    /\ ~is_in_non_confidential_range(layout, event.arg[1])
    /\ event.arg[1] \in ConfidentialBytes
    /\ event.arg[2] = "Ok"
    /\ hypervisor_hart.gprs.a0 < 0
    /\ hypervisor_hart.shared_memory.base_address # NoSharedMemory
    /\ hypervisor_hart.csrs.mepc = 2 * ECALL_INSTRUCTION_LENGTH

\* C34 (shared pages lie in non-confidential memory): SharedPage::new succeeds only if
\* the last byte of the page, hypervisor_address + SIZE - 1, is inside the
\* non-confidential window, and fails with AddressNotInNonConfidentialMemory otherwise;
\* no SharedPage overlaps the confidential window.
SharedPageInNonConfidentialMemory ==
    /\ event.op = "SharedPage::new" =>
          IF is_in_non_confidential_range(layout, event.arg[1] + SharedPage_SIZE - 1)
          THEN /\ shared_page_ret.ok
               /\ shared_page_ret.hypervisor_address = event.arg[1]
               /\ shared_page_ret.confidential_vm_address = event.arg[2]
          ELSE /\ ~shared_page_ret.ok
               /\ shared_page_ret.error = "AddressNotInNonConfidentialMemory"
    /\ shared_page_ret.ok =>
          \A b \in shared_page_ret.hypervisor_address
                       .. shared_page_ret.hypervisor_address + SharedPage_SIZE - 1 :
              /\ is_in_non_confidential_range(layout, b)
              /\ b \notin ConfidentialBytes

\* SharedPage::new refused a page that starts at the last byte of the non-confidential
\* memory, directly below the confidential memory.
SharedPageInNonConfidentialMemoryWitness ==
    /\ event.op = "SharedPage::new"
    /\ ~shared_page_ret.ok
    /\ event.arg[1] = layout.non_confidential_memory_end - 1
    /\ layout.non_confidential_memory_end = layout.confidential_memory_start

\* ======================================================== interrupt controller
\* The hart mhartid sends an IPI to the hart target_hart_id.
SendIpi(mhartid, target_hart_id) ==
    /\ ~panicked
    /\ msip' = send_ipi(msip, mhartid, target_hart_id).clint
    /\ ipi_ret' = send_ipi(msip, mhartid, target_hart_id).ret
    /\ panicked' = send_ipi(msip, mhartid, target_hart_id).panic
    /\ event' = Event("send_ipi", <<mhartid, target_hart_id>>)
    /\ UNCHANGED <<layoutVars, allocVars, pmpVars, trapVars, declVars, cvmVars, lockVars,
                   archVars, mmuVars>>

NextIpi ==
    \E mhartid \in ClintHarts, target_hart_id \in HartIdsSent :
        SendIpi(mhartid, target_hart_id)

SpecIpi == InitAlloc /\ [][NextIpi]_vars

\* C35 (IPI error reporting): send_ipi(target) performs no CLINT write and returns Ok
\* when target is the calling hart, writes msip[target] = 1 otherwise, and when the CLINT
\* write fails it returns Err(InterruptSendingError(code)) to the caller and does not
\* halt the monitor.
IpiErrorReporting ==
    [][event'.op = "send_ipi" =>
          /\ ~panicked'
          /\ IF event'.arg[2] = event'.arg[1]
             THEN msip' = msip /\ ipi_ret' = "Ok"
             ELSE IF event'.arg[2] \in ClintHarts
             THEN /\ msip' = [msip EXCEPT ![event'.arg[2]] = 1]
                  /\ ipi_ret' = "Ok"
             ELSE /\ msip' = msip
                  /\ ipi_ret'[1] = "InterruptSendingError"]_vars

\* ======================================================== the tree of the allocator
\* Node m lies below node n.
Below(n, m) == Len(n) < Len(m) /\ SubSeq(m, 1, Len(n)) = n

DescendantHoldsToken(n) == \E m \in FreeNodes : Below(n, m)

\* The largest size the children of n advertise, None for a node of the smallest size.
AdvertisedByChildren(n) ==
    IF Len(n) < LargestLevel THEN MaxOfChildren(allocator.nodes, n) ELSE NoSize

\* C36 (tree cache invariant): after every store_page_token and acquire_page_token, a
\* node that holds a page token advertises its own size and has no descendant that holds
\* a token; a node that holds none advertises the maximum of what its children advertise
\* (None when no descendant holds a token); and never do all children of a node hold
\* tokens at the same time.
TreeCacheInvariant ==
    (allocator.set /\ ~panicked) =>
        \A n \in NodeIds :
            /\ IF allocator.nodes[n].page_token # NoToken
               THEN /\ allocator.nodes[n].max_allocable_page_size = NodeSize(n)
                    /\ allocator.nodes[n].page_token.size = NodeSize(n)
                    /\ ~DescendantHoldsToken(n)
               ELSE /\ allocator.nodes[n].max_allocable_page_size = AdvertisedByChildren(n)
                    /\ (allocator.nodes[n].max_allocable_page_size = NoSize)
                           <=> ~DescendantHoldsToken(n)
            /\ Len(n) < LargestLevel =>
                   \E i \in 0 .. Fanout - 1 :
                       allocator.nodes[Append(n, i)].page_token = NoToken

\* After a release the root holds no token and advertises a size two below its own,
\* while a token of the smallest size is free as well.
TreeCacheInvariantWitness ==
    /\ allocator.set
    /\ ~panicked
    /\ event.op = "release_pages"
    /\ allocator.nodes[<<>>].page_token = NoToken
    /\ allocator.nodes[<<>>].max_allocable_page_size = LargestLevel - 2
    /\ \E n \in FreeNodes : NodeSize(n) = 0

\* The start addresses of the blocks of size s that are free or lie inside a larger
\* free token.
FreeBlocks(s) ==
    {a \in 0 .. RootBytes - 1 :
        /\ is_aligned_to(a, in_bytes(s))
        /\ \E t \in FreeTokens : t.size >= s /\ a \in TokenBytes(t)}

\* C37 (deterministic first fit): acquire_page(s) descends at every level into the
\* lowest-indexed child whose subtree advertises a size >= s, where child i covers
\* base + i * child_size; the token returned is the block of size s with the lowest
\* start address among the blocks that are free or contained in a larger free token,
\* and the blocks that were free beside it stay free.
FirstFit ==
    [][(event'.op = "acquire_page" /\ FreeBlocks(event'.arg) # {}) =>
           /\ acquire_ret'.size = event'.arg
           /\ acquire_ret'.address \in FreeBlocks(event'.arg)
           /\ \A a \in FreeBlocks(event'.arg) : acquire_ret'.address <= a
           /\ FreeBytes' = FreeBytes \ TokenBytes(acquire_ret')]_vars

\* acquire_page of the smallest size split a larger token although a free token of the
\* smallest size lies above it: the lower address won.
FirstFitWitness ==
    /\ event.op = "acquire_page"
    /\ event.arg = 0
    /\ acquire_ret.size = 0
    /\ \E n \in FreeNodes :
           /\ NodeSize(n) = 0
           /\ allocator.nodes[n].page_token.address > acquire_ret.address + in_bytes(0)
    /\ \E n \in FreeNodes :
           /\ NodeSize(n) = 0
           /\ allocator.nodes[n].page_token.address = acquire_ret.address + in_bytes(0)

\* ======================================================== concurrent shutdown
\* The confidential harts of a VM shut down on their physical harts; the hypervisor
\* does not destroy the VM meanwhile, and promotes the next VM once the harts of the
\* previous one have left their shutdown handlers.
NextShutdown ==
    \/ \E id \in VmIds, number_of_harts \in HartIds :
           /\ \A hart \in HartIds : <<id, hart>> \notin pending_shutdown
           /\ CreateConfidentialVm(id, number_of_harts)
    \/ \E id \in VmIds, hart \in HartIds : StartConfidentialHart(id, hart)
    \/ \E id \in VmIds, hart \in HartIds : ShutdownConfidentialHart(id, hart)
    \/ \E id \in VmIds, hart \in HartIds : ShutdownRemoveConfidentialVm(id, hart)

\* The registers of the hypervisor hart hold what the hypervisor left in them.
InitShutdown ==
    /\ InitMem
    /\ InitPmp({})
    /\ InitTrap(NoMaxExit)
    /\ InitCvm
    /\ \E fill \in 0 .. MaxVal + 2 : InitDecl(TrapCsrs(0, 0, 0, 0), 0, 0, 0, 0, fill)

SpecShutdown == InitShutdown /\ [][NextShutdown]_vars

\* The hart whose removal attempt this step is.
RemovalAttemptOf(id, hart) ==
    /\ event'.op = "remove_confidential_vm"
    /\ event'.arg = id
    /\ <<id, hart>> \in pending_shutdown
    /\ <<id, hart>> \notin pending_shutdown'

\* What holds of every removal attempt: the hart was marked Shutdown and handed back
\* before, an attempt made while a hart is not Shutdown or while the VM is gone changes
\* nothing, and the VM is only ever removed with all its harts Shutdown.
RemovalAttempts ==
    \A id \in VmIds, hart \in HartIds :
        /\ RemovalAttemptOf(id, hart) =>
              /\ cvms[id].registered => cvms[id].harts[hart] = "Shutdown"
              /\ (~cvms[id].registered \/ ~AllHartsShutdown(cvms[id])) => cvms' = cvms
        /\ (cvms[id].registered /\ ~cvms'[id].registered) =>
              /\ AllHartsShutdown(cvms[id])
              /\ event'.op = "remove_confidential_vm"

WindowOpen(pmp) == \E i \in {4, 5} : PmpEntryGrants(pmp.pmpcfg0, i)

\* C39 (PMP in sync across the monitor switch): after
\* overwrite_virtctx_with_hardware_hart the PmpGroup of the monitor holds the hardware
\* values of pmpaddr4, pmpaddr5 and pmpcfg0, the guest GPRs equal the GPRs of the
\* hypervisor hart and the CSRs are as they were; and the commit of the PmpGroup that
\* handle_trap makes on a world switch does not change whether the confidential
\* window is open or closed.
PmpSyncAcrossSwitch ==
    /\ [][event'.op = "overwrite_virtctx_with_hardware_hart" =>
              /\ mctx_pmp'.pmpaddr4 = hw_pmp.pmpaddr4
              /\ mctx_pmp'.pmpaddr5 = hw_pmp.pmpaddr5
              /\ mctx_pmp'.pmpcfg0 = hw_pmp.pmpcfg0
              /\ ctx'.regs = hypervisor_hart.gprs
              /\ hw_pmp' = hw_pmp]_vars
    /\ [][(event'.op = "handle_trap" /\ Called(trap_calls', "write_pmp")) =>
              /\ hw_pmp' = write_pmp(mctx_pmp)
              /\ WindowOpen(hw_pmp') <=> WindowOpen(hw_pmp)]_vars

\* The window was opened and closed, the CSRs were read into the PmpGroup together
\* with the registers of the hypervisor hart, and a later world switch has committed
\* the PmpGroup: the hardware holds what it held, entry 5 a TOR entry, the window shut.
PmpSyncAcrossSwitchWitness ==
    /\ event.op = "handle_trap"
    /\ Called(trap_calls, "write_pmp")
    /\ hw_pmp = mctx_pmp
    /\ 43 \in hw_pmp.pmpcfg0
    /\ ~WindowOpen(hw_pmp)
    /\ hw_pmp.pmpaddr5 > hw_pmp.pmpaddr4
    /\ ctx.regs = hypervisor_hart.gprs
    /\ ctx.regs.a0 # 0

\* ------------------------------------------------ order of the dispatch
\* The calls of a world switch.
WorldSwitchCalls ==
    {"ctx.switch_from_firmware_to_payload", "policy.switch_from_firmware_to_payload",
     "ctx.switch_from_payload_to_firmware", "policy.switch_from_payload_to_firmware",
     "write_pmp"}

\* C40 (order of the dispatch steps): on every handled trap the world switch (the
\* switch of the register banks, the policy hook, the commit of the PMP group) is
\* performed before check_and_inject_interrupts: the injection of interrupts is the
\* last step.
InjectionAfterWorldSwitch ==
    [][(event'.op = "handle_trap" /\ event'.arg \in {"Firmware", "Payload"}) =>
           /\ trap_calls'[Len(trap_calls')] = "check_and_inject_interrupts"
           /\ \A call \in WorldSwitchCalls :
                  Called(trap_calls', call) =>
                      CalledBefore(trap_calls', call, "check_and_inject_interrupts")]_vars

=============================================================================
